---- MODULE Spec2Model ----
(***************************************************************************)
(* Rotation-aware trace-log readers of showFLOW:                           *)
(*   - TraceSBCFileReader (src/src/tracesbc_reader.py): the asyncio byte   *)
(*     tailer read_continuously and the record framer process_chunk of     *)
(*     read_message_continuously;                                          *)
(*   - TracesbcSIPReader (src/src/tracesbc_sip.py): the line-based         *)
(*     iterator, in replay mode (a list of log files) and in follow mode   *)
(*     (the latest file of the log directory).                             *)
(* Bytes and characters are one-character strings, byte strings and text   *)
(* lines are sequences of them.  The variable prog says which of the       *)
(* programs a behaviour runs; the variables of the others keep their       *)
(* initial values.                                                         *)
(***************************************************************************)
EXTENDS Integers, Sequences, FiniteSets, TLC

VARIABLES
    prog,                   \* "framer", "tail", "msg" or "sip": the program that runs
    \* ---- framer: read_message_continuously / process_chunk
    fr_input,               \* the byte stream the reader will hand over
    fr_pos,                 \* number of its bytes handed over so far
    fr_chunks,              \* 0, 1 or 2: chunks handed over so far (2 = several)
    message_buffer,         \* nonlocal message_buffer
    current_message_lines,  \* nonlocal current_message_lines
    fr_delivered,           \* messages passed to the callback, in order
    \* ---- the log directory and the appliance that writes it
    dir,                    \* token -> "absent", "plain" or "gz": the directory
    fsize,                  \* token -> number of bytes the file holds
    app_cur,                \* token of the file the appliance writes (0: none yet)
    cutoff_time,            \* time.time() - lookback_seconds, on the scale of the tokens
    \* ---- tail: TraceSBCFileReader.read_continuously
    current_file,           \* self.current_file (NoFile: None)
    current_handle,         \* self.current_handle: the file it is open on
    handle_offset,          \* the stream position of current_handle
    current_position,       \* self.current_position
    latest_file,            \* the local latest_file of read_continuously
    tail_pc,                \* "check", "sleep", "open", "read" or "stopped"
    tail_exc,               \* what ended read_continuously ("" while it runs)
    tail_delivered,         \* <<file, offset>> of every byte given to the callback
    open_size,              \* token -> size at the reader's first open of it (-1: never)
    tail_first,             \* the first file the reader opened (NoFile: none yet)
    \* ---- sip: TracesbcSIPReader
    sip_arg,                \* the logfiles argument: "None" or "list"
    frecs,                  \* token -> the records a replayed file was written with
    flines,                 \* token -> the lines the file holds
    logfiles,               \* self.logfiles: the files still to open
    total_logfiles,         \* self.total_logfiles
    methods,                \* self.methods ({}: None)
    ignore_fnu,             \* self.ignore_fnu
    filename,               \* self.filename
    fd,                     \* self.fd: the file it is open on (NoFile: None)
    fd_pos,                 \* number of lines of fd already read
    fd_closed,              \* fd.close() has been called on self.fd
    sip_pc,                 \* "idle", "loop", "inner" or "failed" (no object)
    sip_lines,              \* the local lines of __next__
    sip_at,                 \* <<file, index>> of the line sip_lines began with
    sip_spin,               \* parity of the reads at end of file in the inner loop
    sip_result,             \* how the last call ended ("": no call has ended)
    sip_yielded,            \* the Msgs returned, in order
    dir_queried,            \* glob() has been called
    sip_opens,              \* [file, held, pos, by] of every open, in order
    \* ---- the static methods and functions called on their own
    fn_pc,                  \* "ready": the call is to be made; "done": it returned
                            \* (memoize: "hit" from the try, "miss" from the except)
    fn_arg,                 \* the argument of the call
    fn_ret,                 \* what the call returned
    cache,                  \* memoize: the dictionary cache
    \* ---- the process
    open_streams,           \* number of streams opened and not yet closed
    \* ---- main.py: showflows and analyze_flows over one asyncio.Queue
    queue,                  \* the CommandResults put and not yet got
    commands_run,           \* runs of the showflow command; the time of datetime.now()
    put_log,                \* [item, passed]: every item put and the timestamp passed
    got_log,                \* the numbers of the items analyze_flows got, in order
    printed,                \* [item, line, timestamp] of every flow printed
    \* ---- rtcp_monitor.py: JSONPacketBuffer
    buffer,                 \* self.buffer
    started,                \* self.started
    lines_seen,             \* every line given to process_line
    parse_attempts,         \* [lines, outcome] of every _parse_and_callback
    callbacks,              \* the data on_packet_callback was called with
    \* ---- sbce.py: SBCE and the row LOG_SUB_SIPCC of EXECUTION_LOGLEVEL
    loglevel,               \* LOGLEVEL as stored in the database
    capture_active,         \* self.capture_active
    sbce_result,            \* [call, value, outcome] of the last call
    updates,                \* the number of UPDATE statements issued
    mock                    \* the attribute mock: "unset", "False" or "True"

frVars == <<fr_input, fr_pos, fr_chunks, message_buffer, current_message_lines,
            fr_delivered>>

dirVars == <<dir, fsize, app_cur, cutoff_time>>

tailVars == <<current_file, current_handle, handle_offset, current_position,
              latest_file, tail_pc, tail_exc, tail_delivered, open_size,
              tail_first>>

sipVars == <<sip_arg, frecs, flines, logfiles, total_logfiles, methods, ignore_fnu,
             filename, fd, fd_pos, fd_closed, sip_pc, sip_lines, sip_at, sip_spin,
             sip_result, sip_yielded, dir_queried, sip_opens>>

fnVars == <<fn_pc, fn_arg, fn_ret, cache>>

pipeVars == <<queue, commands_run, put_log, got_log, printed>>

jsonVars == <<buffer, started, lines_seen, parse_attempts, callbacks>>

sbceVars == <<loglevel, capture_active, sbce_result, updates, mock>>

appVars == <<pipeVars, jsonVars, sbceVars>>

vars == <<prog, frVars, dirVars, tailVars, sipVars, fnVars, open_streams, appVars>>

----------------------------------------------------------------------------
(* Byte-string and text helpers (Python's bytes / str methods).            *)

\* bytes.strip() and str.strip() without argument remove these
Whitespace == {" ", "\t", "\n", "\r"}

RECURSIVE LStrip(_, _)
\* s.lstrip(cs)
LStrip(s, cs) == IF s # <<>> /\ Head(s) \in cs THEN LStrip(Tail(s), cs) ELSE s

RECURSIVE RStrip(_, _)
\* s.rstrip(cs)
RStrip(s, cs) ==
    IF s # <<>> /\ s[Len(s)] \in cs THEN RStrip(SubSeq(s, 1, Len(s) - 1), cs) ELSE s

\* s.strip()
Strip(s) == LStrip(RStrip(s, Whitespace), Whitespace)

\* s.count(c) for a one-character c
Count(s, c) == Cardinality({i \in 1..Len(s) : s[i] = c})

\* s.startswith(p)
StartsWith(s, p) == Len(s) >= Len(p) /\ SubSeq(s, 1, Len(p)) = p

RECURSIVE Split(_, _)
\* s.split(sep) for a one-character sep: n separators give n+1 pieces
Split(s, sep) ==
    IF \A i \in 1..Len(s) : s[i] # sep
    THEN <<s>>
    ELSE LET k == CHOOSE i \in 1..Len(s) :
                      s[i] = sep /\ \A j \in 1..(i - 1) : s[j] # sep
         IN  <<SubSeq(s, 1, k - 1)>> \o Split(SubSeq(s, k + 1, Len(s)), sep)

RECURSIVE Join(_, _)
\* sep.join(parts)
Join(parts, sep) ==
    IF parts = <<>> THEN <<>>
    ELSE IF Len(parts) = 1 THEN parts[1]
    ELSE parts[1] \o <<sep>> \o Join(Tail(parts), sep)

RECURSIVE Concat(_)
\* "".join(parts)
Concat(parts) == IF parts = <<>> THEN <<>> ELSE Head(parts) \o Concat(Tail(parts))

\* s.split(): the maximal runs of non-whitespace characters
RECURSIVE SplitWS(_)
SplitWS(s) ==
    LET t == LStrip(s, Whitespace) IN
    IF t = <<>> THEN <<>>
    ELSE LET ends == {i \in 1..Len(t) : t[i] \in Whitespace}
             n    == IF ends = {} THEN Len(t)
                     ELSE (CHOOSE i \in ends : \A j \in ends : i <= j) - 1
         IN  <<SubSeq(t, 1, n)>> \o SplitWS(SubSeq(t, n + 1, Len(t)))

\* sub in s
Contains(s, sub) ==
    \E i \in 0..(Len(s) - Len(sub)) : SubSeq(s, i + 1, i + Len(sub)) = sub

\* s[a:b] for 0 <= a <= b
Slice(s, a, b) == SubSeq(s, a + 1, IF b < Len(s) THEN b ELSE Len(s))

\* s[a:-k] for a >= 0, k > 0
SliceFromEnd(s, a, k) == SubSeq(s, a + 1, Len(s) - k)

Digits == {"0", "1", "2", "3", "4", "5", "6", "7", "8", "9"}

DigitValue(c) ==
    CASE c = "0" -> 0 [] c = "1" -> 1 [] c = "2" -> 2 [] c = "3" -> 3 [] c = "4" -> 4
      [] c = "5" -> 5 [] c = "6" -> 6 [] c = "7" -> 7 [] c = "8" -> 8 [] c = "9" -> 9

\* whether int(s) returns for a text without sign, blanks or underscores
IsInt(s) == s # <<>> /\ \A i \in 1..Len(s) : s[i] \in Digits

RECURSIVE ToInt(_)
\* int(s) for such a text
ToInt(s) ==
    IF s = <<>> THEN 0 ELSE 10 * ToInt(SubSeq(s, 1, Len(s) - 1)) + DigitValue(s[Len(s)])

----------------------------------------------------------------------------
(* The framer: process_chunk of read_message_continuously.                 *)

\* minimum length of a trailer line (tracesbc_reader.py:132)
TrailerMinLen == 5

\* variant of IsDashRun that takes a run of four dashes for a trailer
IsShortDashRun(stripped) ==
    Len(stripped) >= TrailerMinLen - 1 /\ Count(stripped, "-") = Len(stripped)

\* the test of tracesbc_reader.py:132 on a stripped line
IsDashRun(stripped) ==
    Len(stripped) >= TrailerMinLen /\ Count(stripped, "-") = Len(stripped)

\* the spec's trailer line: at least 5 characters, all of them '-'; written
\* apart from the code's test so that claims do not quote the code
RECURSIVE AllDashes(_)
AllDashes(s) == s = <<>> \/ (Head(s) = "-" /\ AllDashes(Tail(s)))

\* one pass of the for loop of process_chunk over a complete line;
\* st = [lines: current_message_lines, out: messages given to the callback]
FrameLine(st, line) ==
    LET stripped == Strip(line) IN
    IF IsDashRun(stripped)
    THEN IF st.lines # <<>>
         THEN LET message == Join(st.lines, "\n") IN
              [lines |-> <<>>,
               out   |-> IF Strip(message) # <<>>
                         THEN Append(st.out, message) ELSE st.out]
         ELSE st
    ELSE [st EXCEPT !.lines = Append(@, line)]

RECURSIVE FrameLines(_, _)
\* the for loop of process_chunk
FrameLines(st, ls) ==
    IF ls = <<>> THEN st ELSE FrameLines(FrameLine(st, Head(ls)), Tail(ls))

\* variant of ChunkLines that also visits the unfinished last fragment
ChunkLinesAll(lines) == lines

\* lines[:-1], the complete lines the for loop of process_chunk visits
ChunkLines(lines) == SubSeq(lines, 1, Len(lines) - 1)

\* process_chunk(data, filepath) on the framer state
\* fs = [buf: message_buffer, lines: current_message_lines, out: delivered]
process_chunk(fs, data) ==
    LET joined == fs.buf \o data
        lines  == Split(joined, "\n")
        st     == FrameLines([lines |-> fs.lines, out |-> fs.out], ChunkLines(lines))
    IN  [buf |-> lines[Len(lines)], lines |-> st.lines, out |-> st.out]

FramerState ==
    [buf |-> message_buffer, lines |-> current_message_lines, out |-> fr_delivered]

\* the framer state when read_message_continuously starts (lines 118-119)
FramerStart == [buf |-> <<>>, lines |-> <<>>, out |-> <<>>]

FramerUnused ==
    /\ fr_input = <<>>
    /\ fr_pos = 0
    /\ fr_chunks = 0
    /\ message_buffer = <<>>
    /\ current_message_lines = <<>>
    /\ fr_delivered = <<>>

----------------------------------------------------------------------------
(* The log directory.  A file is named by the numeric token embedded in    *)
(* its name (tracesbc_sip_<token>, all tokens of one width); compressing   *)
(* replaces it by <name>.gz.  The appliance appends to the file it created *)
(* last, while it is in the directory, and rotates by creating the file of *)
(* the next token.  Files it has rotated away from may be compressed, and  *)
(* any file may be deleted, at any time.  A file keeps its bytes for the   *)
(* streams open on it after its name has gone.                             *)

MaxFiles == 2

MaxBytes == 2

Tokens == 1..MaxFiles

\* Python's None for a path or a stream (tracesbc_reader.py:37-38)
NoFile == 0

DirUnused ==
    /\ dir = [t \in Tokens |-> "absent"]
    /\ fsize = [t \in Tokens |-> 0]
    /\ app_cur = 0
    /\ cutoff_time = 0

SipUnused ==
    /\ sip_arg = "None"
    /\ frecs = [t \in Tokens |-> <<>>]
    /\ flines = [t \in Tokens |-> <<>>]
    /\ logfiles = <<>>
    /\ total_logfiles = 0
    /\ methods = {}
    /\ ignore_fnu = FALSE
    /\ filename = NoFile
    /\ fd = NoFile
    /\ fd_pos = 0
    /\ fd_closed = FALSE
    /\ sip_pc = "failed"
    /\ sip_lines = <<>>
    /\ sip_at = <<>>
    /\ sip_spin = 0
    /\ sip_result = ""
    /\ sip_yielded = <<>>
    /\ dir_queried = FALSE
    /\ sip_opens = <<>>

\* the programs that run read_continuously: "tail" with a callback that
\* records what it is given, "msg" with process_chunk for the callback
\* (read_message_continuously, line 141)
TailProgs == {"tail", "msg", "trace"}

\* the names glob(pattern) returns
Glob == {t \in Tokens : dir[t] # "absent"}

\* max(glob(pattern)): the names differ first in the token
MaxGlob == CHOOSE t \in Glob : \A u \in Glob : u <= t

\* a variant of get_latest_file without the test of the suffix
get_latest_file_any == MaxGlob

\* TraceSBCFileReader._get_latest_file, when max() does not raise
get_latest_file == IF dir[MaxGlob] # "gz" THEN MaxGlob ELSE NoFile

\* TraceFileReader._get_recent_files (lines 289-301): the files whose
\* epoch is not before the cutoff
get_recent_files == {t \in Glob : t >= cutoff_time}

\* TraceFileReader._get_latest_file (lines 303-306): the recent file of
\* the greatest epoch, None if no file is recent
trace_get_latest_file ==
    IF get_recent_files = {} THEN NoFile
    ELSE CHOOSE t \in get_recent_files : \A u \in get_recent_files : u <= t

\* the appliance starts the next file
AppRotate ==
    /\ prog \in TailProgs \cup {"sip"}
    /\ app_cur < MaxFiles
    /\ app_cur' = app_cur + 1
    /\ dir' = [dir EXCEPT ![app_cur + 1] = "plain"]
    /\ UNCHANGED <<fsize, cutoff_time>>

\* a rotated file is compressed: <name> is replaced by <name>.gz
Gzip(t) ==
    /\ prog \in {"tail", "msg", "sip"}
    /\ t < app_cur
    /\ dir[t] = "plain"
    /\ dir' = [dir EXCEPT ![t] = "gz"]
    /\ UNCHANGED <<fsize, app_cur, cutoff_time>>

\* a file is removed from the directory
Delete(t) ==
    /\ prog \in TailProgs \cup {"sip"}
    /\ dir[t] # "absent"
    /\ dir' = [dir EXCEPT ![t] = "absent"]
    /\ UNCHANGED <<fsize, app_cur, cutoff_time>>

----------------------------------------------------------------------------
(* TraceSBCFileReader.read_continuously, one action per step of its loop:  *)
(* the directory can change between any two of them.                       *)

\* chunk_size of read_continuously, scaled down
ChunkSize == 2

\* Under "msg" the appliance writes whole lines of one length, a file is
\* counted in lines and chunk_size is ChunkSize lines.  Its records are a
\* '['-line and a trailer line, written one after the other without regard
\* to rotation: line i of file t is the line of that index in the stream
\* of all lines written.
MsgHeader == <<"[", "a", "b", "c", "d">>

MsgTrailer == <<"-", "-", "-", "-", "-">>

RECURSIVE LinesBefore(_)
LinesBefore(t) == IF t <= 1 THEN 0 ELSE fsize[t - 1] + LinesBefore(t - 1)

DiskLine(t, i) == IF (LinesBefore(t) + i) % 2 = 0 THEN MsgHeader ELSE MsgTrailer

RECURSIVE DiskBytes(_)
\* the bytes at the positions at
DiskBytes(at) ==
    IF at = <<>> THEN <<>>
    ELSE DiskLine(at[1][1], at[1][2]) \o <<"\n">> \o DiskBytes(Tail(at))

FnUnused ==
    /\ fn_pc = "done"
    /\ fn_arg = <<>>
    /\ fn_ret = <<>>
    /\ cache = <<>>

PipeUnused ==
    /\ queue = <<>>
    /\ commands_run = 0
    /\ put_log = <<>>
    /\ got_log = <<>>
    /\ printed = <<>>

JsonUnused ==
    /\ buffer = <<>>
    /\ started = FALSE
    /\ lines_seen = <<>>
    /\ parse_attempts = <<>>
    /\ callbacks = <<>>

SbceUnused ==
    /\ loglevel = <<>>
    /\ capture_active = FALSE
    /\ sbce_result = ""
    /\ updates = 0
    /\ mock = "unset"

AppUnused == PipeUnused /\ JsonUnused /\ SbceUnused

TailUnused ==
    /\ current_file = NoFile
    /\ current_handle = NoFile
    /\ handle_offset = 0
    /\ current_position = 0
    /\ latest_file = NoFile
    /\ tail_pc = "stopped"
    /\ tail_exc = ""
    /\ tail_delivered = <<>>
    /\ open_size = [t \in Tokens |-> -1]
    /\ tail_first = NoFile

\* the reader object: h = [handle, offset, position]
TailHandle ==
    [handle |-> current_handle, offset |-> handle_offset, position |-> current_position]

\* variant of close_current_file that returns the stream it has closed
close_returning_closed(h) ==
    IF h.handle # NoFile
    THEN [handle |-> NoFile, offset |-> 0, position |-> 0, ret |-> h.handle,
          closes |-> 1]
    ELSE [handle |-> h.handle, offset |-> h.offset, position |-> h.position,
          ret |-> NoFile, closes |-> 0]

\* variant of close_current_file that leaves the stream open
close_nothing(h) ==
    [handle |-> h.handle, offset |-> h.offset, position |-> h.position,
     ret |-> NoFile, closes |-> 0]

\* _close_current_file: what it leaves of the reader, what it returns,
\* which is self.current_handle after it has been set to None, and the
\* number of streams it has called close() on
close_current_file(h) ==
    IF h.handle # NoFile
    THEN [handle |-> NoFile, offset |-> 0, position |-> 0, ret |-> NoFile,
          closes |-> 1]
    ELSE [handle |-> h.handle, offset |-> h.offset, position |-> h.position,
          ret |-> NoFile, closes |-> 0]

\* variant of open_new_file that does not keep what seek returns
open_new_file_unseeked(h, closed, filepath) ==
    [handle |-> filepath, offset |-> IF closed # NoFile THEN 0 ELSE fsize[filepath],
     position |-> 0]

\* _open_new_file(filepath) when open() succeeds: h is the reader after
\* _close_current_file, closed what that call returned
open_new_file(h, closed, filepath) ==
    IF closed # NoFile
    THEN [handle |-> filepath, offset |-> 0, position |-> 0]
    ELSE [handle |-> filepath, offset |-> fsize[filepath],
          position |-> fsize[filepath]]

\* TraceFileReader._open_new_file(filepath) when open() succeeds
trace_open_new_file(filepath) ==
    [handle |-> filepath, offset |-> 0, position |-> 0]

\* the finally clause of read_continuously, after exception exc, with n
\* streams open
TailStop(h, exc, n) ==
    LET c == close_current_file(h) IN
    /\ open_streams' = n - c.closes
    /\ current_handle' = c.handle
    /\ handle_offset' = c.offset
    /\ current_position' = c.position
    /\ tail_pc' = "stopped"
    /\ tail_exc' = exc

\* lines 90-99: look for the latest file and decide
TailCheck ==
    /\ prog \in TailProgs
    /\ tail_pc = "check"
    /\ IF Glob = {} /\ prog # "trace"
       THEN \* max() of an empty sequence raises ValueError
            /\ TailStop(TailHandle, "ValueError", open_streams)
            /\ UNCHANGED <<current_file, latest_file>>
       ELSE LET latest == IF prog = "trace" THEN trace_get_latest_file
                                            ELSE get_latest_file IN
            /\ latest_file' = latest
            /\ tail_pc' = IF latest = NoFile THEN "sleep"
                          ELSE IF current_file # latest THEN "open"
                          ELSE "read"
            /\ UNCHANGED <<current_file, current_handle, handle_offset,
                           current_position, tail_exc, open_streams>>
    /\ UNCHANGED <<prog, appVars, fnVars, frVars, dirVars, sipVars, tail_delivered, open_size,
                   tail_first>>

\* line 99: _open_new_file(latest_file)
TailOpen ==
    /\ prog \in TailProgs
    /\ tail_pc = "open"
    /\ LET c == close_current_file(TailHandle) IN
       /\ current_file' = latest_file
       /\ IF dir[latest_file] # "plain"
          THEN \* open() raises FileNotFoundError: the name has gone
               /\ TailStop(c, "FileNotFoundError", open_streams - c.closes)
               /\ UNCHANGED <<open_size, tail_first>>
          ELSE LET o == IF prog = "trace" THEN trace_open_new_file(latest_file)
                        ELSE open_new_file(c, c.ret, latest_file) IN
               /\ open_streams' = open_streams - c.closes + 1
               /\ current_handle' = o.handle
               /\ handle_offset' = o.offset
               /\ current_position' = o.position
               /\ tail_pc' = "read"
               /\ open_size' = IF open_size[latest_file] = -1
                               THEN [open_size EXCEPT ![latest_file] = fsize[latest_file]]
                               ELSE open_size
               /\ tail_first' = IF tail_first = NoFile THEN latest_file
                                ELSE tail_first
               /\ UNCHANGED tail_exc
    /\ UNCHANGED <<prog, appVars, fnVars, frVars, dirVars, sipVars, latest_file, tail_delivered>>

\* the positions of the bytes read(chunk_size) returns
ReadChunk(h, chunk_size) ==
    LET avail == fsize[h.handle] - h.offset
        n     == IF avail < chunk_size THEN avail ELSE chunk_size
    IN  [i \in 1..n |-> <<h.handle, h.offset + i - 1>>]

\* lines 102-109: _read_chunk, then the callback or the sleep
TailRead ==
    /\ prog \in TailProgs
    /\ tail_pc = "read"
    /\ LET data == IF current_handle = NoFile THEN <<>>
                   ELSE ReadChunk(TailHandle, ChunkSize)
       IN  /\ handle_offset' = handle_offset + Len(data)
           /\ current_position' = current_position + Len(data)
           /\ tail_delivered' = tail_delivered \o data
           /\ IF prog = "msg" /\ data # <<>>
              THEN LET fs == process_chunk(FramerState, DiskBytes(data)) IN
                   /\ message_buffer' = fs.buf
                   /\ current_message_lines' = fs.lines
                   /\ fr_delivered' = fs.out
              ELSE UNCHANGED <<message_buffer, current_message_lines, fr_delivered>>
    /\ tail_pc' = "check"
    /\ UNCHANGED <<prog, appVars, fnVars, open_streams, fr_input, fr_pos, fr_chunks, dirVars, sipVars, current_file,
                   current_handle, latest_file, tail_exc, open_size, tail_first>>

\* lines 94-95: asyncio.sleep(check_interval) is over
TailWake ==
    /\ prog \in TailProgs
    /\ tail_pc = "sleep"
    /\ tail_pc' = "check"
    /\ UNCHANGED <<prog, appVars, fnVars, open_streams, frVars, dirVars, sipVars, current_file,
                   current_handle, handle_offset, current_position, latest_file,
                   tail_exc, tail_delivered, open_size, tail_first>>

\* the task is cancelled while it sleeps or awaits the callback, or the
\* callback raises
TailCancel ==
    /\ prog \in TailProgs
    /\ tail_pc \in {"check", "sleep"}
    /\ \E exc \in {"CancelledError", "Exception"} :
          TailStop(TailHandle, exc, open_streams)
    /\ UNCHANGED <<prog, appVars, fnVars, frVars, dirVars, sipVars, current_file, latest_file,
                   tail_delivered, open_size, tail_first>>

\* the appliance appends a byte to its file
AppWrite ==
    /\ prog \in TailProgs
    /\ app_cur # 0
    /\ dir[app_cur] = "plain"
    /\ fsize[app_cur] < MaxBytes
    /\ fsize' = [fsize EXCEPT ![app_cur] = @ + 1]
    /\ UNCHANGED <<prog, appVars, fnVars, open_streams, frVars, dir, app_cur, cutoff_time, tailVars,
                   sipVars>>

\* how the directory may look when the reader is constructed: empty, or
\* holding one file, which may have been compressed already
InitDir ==
    /\ app_cur \in 0..1
    /\ dir \in {d \in [Tokens -> {"absent", "plain", "gz"}] :
                  \A t \in Tokens : d[t] # "absent" <=> t <= app_cur}

\* TraceSBCFileReader.__init__ (lines 37-39)
InitReader ==
    /\ InitDir
    /\ FnUnused
    /\ AppUnused
    /\ open_streams = 0
    /\ fsize \in {f \in [Tokens -> 0..MaxBytes] : \A t \in Tokens : t > app_cur => f[t] = 0}
    /\ FramerUnused
    /\ SipUnused
    /\ current_file = NoFile
    /\ current_handle = NoFile
    /\ handle_offset = 0
    /\ current_position = 0
    /\ latest_file = NoFile
    /\ tail_pc = "check"
    /\ tail_exc = ""
    /\ tail_delivered = <<>>
    /\ open_size = [t \in Tokens |-> -1]
    /\ tail_first = NoFile

InitTail == prog = "tail" /\ InitReader /\ cutoff_time = 0

\* read_message_continuously (lines 118-119, 141)
InitMsg == prog = "msg" /\ InitReader /\ cutoff_time = 0

\* TraceFileReader.__init__ (tracesbc_sip.py, lines 265-267); its files
\* are not compressed; the newest of them can be older than lookback_seconds
InitTrace ==
    /\ prog = "trace"
    /\ InitReader
    /\ \A t \in Tokens : dir[t] # "gz"
    /\ cutoff_time \in 0..(app_cur + 1)

TailEnv ==
    /\ \/ AppRotate
       \/ \E t \in Tokens : Gzip(t)
       \/ \E t \in Tokens : Delete(t)
    /\ prog \in {"tail", "msg"}
    /\ UNCHANGED <<prog, appVars, fnVars, open_streams, frVars, tailVars, sipVars>>

NextTailReader == TailCheck \/ TailOpen \/ TailRead \/ TailWake

\* time passes: time.time() - lookback_seconds grows past the epoch of one
\* more file.  A file the appliance creates bears the time of its creation,
\* which is later than the cutoff
TimePasses ==
    /\ prog = "trace"
    /\ cutoff_time <= app_cur
    /\ cutoff_time' = cutoff_time + 1
    /\ UNCHANGED <<dir, fsize, app_cur>>

TraceEnv ==
    /\ \/ AppRotate
       \/ \E t \in Tokens : Delete(t)
       \/ TimePasses
    /\ prog = "trace"
    /\ UNCHANGED <<prog, appVars, fnVars, open_streams, frVars, tailVars, sipVars>>

NextTrace == NextTailReader \/ TailCancel \/ AppWrite \/ TraceEnv

\* a TraceFileReader started on files that are still empty
InitTraceEmpty == InitTrace /\ fsize = [t \in Tokens |-> 0]

SpecTrace == InitTraceEmpty /\ [][NextTrace]_vars

\* the event loop keeps running the task until it ends
FairSpecTrace ==
    SpecTrace /\ WF_vars(NextTailReader)

NextTail == NextTailReader \/ TailCancel \/ AppWrite \/ TailEnv

SpecTail == InitTail /\ [][NextTail]_vars

\* the event loop keeps running the task until it ends
FairSpecTail == SpecTail /\ WF_vars(NextTailReader)

SpecMsg == InitMsg /\ [][NextTail]_vars

----------------------------------------------------------------------------
(* The texts of the trace-log lines the model uses, without their line     *)
(* ends.  A file is a sequence of line names; LineText gives the text.     *)

\* the text of a timestamp, MM-DD-YYYY:HH:MM:SS:UUUUUU
TsText ==
    <<"0", "1", "-", "1", "5", "-", "2", "0", "2", "4", ":", "1", "3", ":",
      "4", "5", ":", "0", "9", ":", "1", "2", "3", "4", "5", "6">>

\* an address line
AddrText ==
    <<"I", "N", ":", " ", "1", ".", "1", ".", "1", ".", "1", ":", "5", "0",
      "6", "0", " ", "-", "-", ">", " ", "2", ".", "2", ".", "2", ".", "2",
      ":", "5", "0", "6", "1", " ", "(", "U", "D", "P", ")">>

\* a request line
RequestText ==
    <<"I", "N", "V", "I", "T", "E", " ", "s", "i", "p", ":", "a">>

\* a CSeq header
CSeqText ==
    <<"C", "S", "e", "q", ":", " ", "1", " ", "I", "N", "V", "I", "T", "E">>

\* a CSeq header of another method
CSeqOptText ==
    <<"C", "S", "e", "q", ":", " ", "2", " ", "O", "P", "T", "I", "O", "N", "S">>

\* a trailer line
TrailerText ==
    <<"-", "-", "-", "-", "-", "-", "-", "-">>

\* a multipart boundary: begins with two dashes, is no trailer
BoundaryText ==
    <<"-", "-", "b", "1">>

\* a body line that begins with a bracket
BracketText ==
    <<"[", "x", "]">>

\* the prefix _method looks for
CSeqPrefix ==
    <<"C", "S", "e", "q">>

\* first marker of _is_fnu
FnuOffHook ==
    <<"a", "v", "a", "y", "a", "-", "c", "m", "-", "f", "n", "u", "=", "o",
      "f", "f", "-", "h", "o", "o", "k">>

\* second marker of _is_fnu
FnuEc500 ==
    <<"a", "v", "a", "y", "a", "-", "c", "m", "-", "f", "n", "u", "=", "e",
      "c", "5", "0", "0">>

\* a request line that carries the first marker
FnuRequestText ==
    <<"I", "N", "V", "I", "T", "E", " ", "s", "i", "p", ":", "a", ";", "a",
      "v", "a", "y", "a", "-", "c", "m", "-", "f", "n", "u", "=", "o", "f",
      "f", "-", "h", "o", "o", "k">>

\* the method INVITE
INVITE ==
    <<"I", "N", "V", "I", "T", "E">>

LineText(id) ==
    CASE id = "hdr"      -> <<"[">> \o TsText \o <<"]">>
      [] id = "addr"     -> AddrText
      \* an address line of the other direction
      [] id = "addrout"  -> <<"O", "U", "T", ":", " ", "2", ".", "2", ".", "2", ".", "2", ":", "5", "0", "6", "1", " ", "-", "-", ">", " ">>
                            \o <<"1", ".", "1", ".", "1", ".", "1", ":", "5", "0", "6", "0", " ", "(", "T", "L", "S", ")">>
      [] id = "request"  -> RequestText
      [] id = "fnureq"   -> FnuRequestText
      [] id = "cseq"     -> CSeqText
      [] id = "cseqopt"  -> CSeqOptText
      \* CSeq headers of two and of four tokens, one with tabs between
      \* its three tokens, and one that begins with a space
      [] id = "cseq2"    -> <<"C", "S", "e", "q", ":", " ", "1">>
      [] id = "cseq4"    -> <<"C", "S", "e", "q", ":", " ", "1", " ", "I", "N", "V", "I", "T", "E", " ", "x">>
      [] id = "cseqtab"  -> <<"C", "S", "e", "q", ":", "\t", "1", "\t", "I", "N", "V", "I", "T", "E">>
      [] id = "spcseq"   -> <<" ", "C", "S", "e", "q", ":", " ", "1", " ", "I", "N", "V", "I", "T", "E">>
      [] id = "empty"    -> <<>>
      [] id = "boundary" -> BoundaryText
      [] id = "bracket"  -> BracketText
      [] id = "trailer"  -> TrailerText

\* the records replayed files are written with, as line names; all of
\* them begin with a '['-line, and all but "open" end with a trailer line.
\* "invite" and "multipart" are well-formed; "options" is too, and is of
\* another method; "badts" has no timestamp in its first line, "noaddr"
\* has a CSeq header where the address line should be, "fnu" has a
\* marker of _is_fnu in its third line, "short" is a '['-line and a trailer
RecordLines(shape) ==
    CASE shape = "invite"    -> <<"hdr", "addr", "request", "cseq", "empty", "trailer">>
      [] shape = "multipart" -> <<"hdr", "addr", "boundary", "bracket", "trailer">>
      [] shape = "open"      -> <<"hdr", "addr", "request">>
      [] shape = "options"   -> <<"hdr", "addr", "cseqopt", "trailer">>
      [] shape = "badts"     -> <<"bracket", "addr", "trailer">>
      [] shape = "noaddr"    -> <<"hdr", "cseqopt", "cseq", "trailer">>
      [] shape = "fnu"       -> <<"hdr", "addr", "fnureq", "cseq", "trailer">>
      [] shape = "short"     -> <<"hdr", "trailer">>

Shapes == {"invite", "multipart", "open", "options", "badts", "noaddr", "fnu", "short"}

WellFormedShapes == {"invite", "multipart", "options"}

RECURSIVE FileOfRecords(_)
\* the lines of a file written with the records rs
FileOfRecords(rs) ==
    IF rs = <<>> THEN <<>> ELSE RecordLines(Head(rs)) \o FileOfRecords(Tail(rs))

\* the record the appliance writes again and again to the live file
LiveRecord == <<"hdr", "addr", "trailer">>

\* the first k lines the appliance writes to a live file
LiveFile(k) == [i \in 1..k |-> LiveRecord[((i - 1) % Len(LiveRecord)) + 1]]

----------------------------------------------------------------------------
(* TracesbcSIPReader: the helpers of __next__.                             *)

\* the calendar check of datetime(): days of a month
DaysIn(year, month) ==
    IF month \in {4, 6, 9, 11} THEN 30
    ELSE IF month # 2 THEN 31
    ELSE IF year % 4 = 0 /\ (year % 100 # 0 \/ year % 400 = 0) THEN 29 ELSE 28

\* TracesbcSIPReader.strptime(s); ok is FALSE when int() or datetime()
\* raises ValueError
strptime(s) ==
    LET ys == Slice(s, 6, 10)
        ms == Slice(s, 0, 2)
        ds == Slice(s, 3, 5)
        hs == Slice(s, 11, 13)
        ns == Slice(s, 14, 16)
        ss == Slice(s, 17, 19)
        us == Slice(s, 20, 26)
        parsed == \A x \in {ys, ms, ds, hs, ns, ss, us} : IsInt(x)
    IN  IF ~parsed
        THEN [ok |-> FALSE, year |-> 0, month |-> 0, day |-> 0, hour |-> 0,
              minute |-> 0, second |-> 0, microsecond |-> 0]
        ELSE LET v == [year |-> ToInt(ys), month |-> ToInt(ms), day |-> ToInt(ds),
                       hour |-> ToInt(hs), minute |-> ToInt(ns), second |-> ToInt(ss),
                       microsecond |-> ToInt(us)]
             IN  [ok |-> /\ v.year \in 1..9999
                         /\ v.month \in 1..12
                         /\ v.day \in 1..DaysIn(v.year, v.month)
                         /\ v.hour < 24 /\ v.minute < 60 /\ v.second < 60,
                  year |-> v.year, month |-> v.month, day |-> v.day,
                  hour |-> v.hour, minute |-> v.minute, second |-> v.second,
                  microsecond |-> v.microsecond]

\* TracesbcSIPReader._method(lines)
\* a variant that takes the first CSeq line of three tokens
method_of_three(ls) ==
    LET cseqs == {i \in 1..Len(ls) : /\ StartsWith(ls[i], CSeqPrefix)
                                     /\ Len(SplitWS(ls[i])) = 3} IN
    IF cseqs = {} THEN <<>>
    ELSE SplitWS(ls[CHOOSE i \in cseqs : \A j \in cseqs : i <= j])[3]

method_of(ls) ==
    LET cseqs == {i \in 1..Len(ls) : StartsWith(ls[i], CSeqPrefix)} IN
    IF cseqs = {} THEN <<>>
    ELSE LET hdr    == ls[CHOOSE i \in cseqs : \A j \in cseqs : i <= j]
             params == SplitWS(hdr)
         IN  IF Len(params) = 3 THEN params[3] ELSE <<>>

\* TracesbcSIPReader._is_fnu(line)
is_fnu(line) == Contains(line, FnuOffHook) \/ Contains(line, FnuEc500)

\* whether a line read by readline() is a trailer line: at least
\* TrailerMinLen characters before its end, all of them '-'
EndsRecordAtTrailer(line) ==
    LET t == RStrip(line, {"\r", "\n"}) IN Len(t) >= TrailerMinLen /\ AllDashes(t)

\* the test that ends the inner loop of __next__ (line 121)
EndsRecord(line) == StartsWith(line, <<"-", "-">>)

\* fd.readline() in text mode: the next line with its end as "\n", or the
\* empty text at the end of the file
ReadLine(f, pos) ==
    IF pos < Len(flines[f]) THEN LineText(flines[f][pos + 1]) \o <<"\n">> ELSE <<>>

\* lines 124-133 of __next__, once the inner loop has ended with lines ls:
\* what the call does next
NextOutcome(ls) ==
    IF methods # {} /\ method_of(SubSeq(ls, 3, Len(ls))) \notin methods
    THEN [kind |-> "continue", timestamp |-> strptime(<<>>)]
    ELSE IF ignore_fnu /\ Len(ls) < 3
    THEN [kind |-> "IndexError", timestamp |-> strptime(<<>>)]
    ELSE IF ignore_fnu /\ is_fnu(ls[3])
    THEN [kind |-> "continue", timestamp |-> strptime(<<>>)]
    ELSE LET ts == strptime(SliceFromEnd(ls[1], 1, 3)) IN
         [kind |-> IF ts.ok THEN "Msg" ELSE "ValueError", timestamp |-> ts]

\* Python's None where a text is expected: no text equals it
NoneText == <<"None">>

\* the length of the longest run of characters of cls in s from index i on,
\* what a greedy [...]* or \d+ consumes
RECURSIVE RunLen(_, _, _)
RunLen(s, i, cls) ==
    IF i <= Len(s) /\ s[i] \in cls THEN 1 + RunLen(s, i + 1, cls) ELSE 0

\* the same for the characters outside cls, what a greedy \D+ consumes
RECURSIVE RunLenNot(_, _, _)
RunLenNot(s, i, cls) ==
    IF i <= Len(s) /\ s[i] \notin cls THEN 1 + RunLenNot(s, i + 1, cls) ELSE 0

\* s has the literal lit at index i
HasAt(s, i, lit) ==
    i >= 1 /\ i + Len(lit) - 1 <= Len(s) /\ SubSeq(s, i, i + Len(lit) - 1) = lit

IpChars == Digits \cup {"."}

\* the match of the pattern of line 171 at index p of s:
\*   (IN|OUT): ([0-9.]*):(\d+) --> ([0-9.]*):(\d+) \((\D+)\)
\* Every class is followed by a literal outside the class, so the greedy
\* runs are the only candidates; \D+ gives back characters down to the last
\* ')' of its run, which must leave it one character at least
MatchAddrAt(s, p) ==
    LET d   == IF HasAt(s, p, <<"I", "N">>) THEN <<"I", "N">>
               ELSE IF HasAt(s, p, <<"O", "U", "T">>) THEN <<"O", "U", "T">>
               ELSE <<>>
        a   == p + Len(d)
        b   == a + 2
        n1  == RunLen(s, b, IpChars)
        c   == b + n1
        e   == c + 1
        n2  == RunLen(s, e, Digits)
        f   == e + n2
        g   == f + 5
        n3  == RunLen(s, g, IpChars)
        h   == g + n3
        k   == h + 1
        n4  == RunLen(s, k, Digits)
        l   == k + n4
        m   == l + 2
        n5  == RunLenNot(s, m, Digits)
        ps  == {j \in 1..(n5 - 1) : s[m + j] = ")"}
        ok  == /\ d # <<>>
               /\ HasAt(s, a, <<":", " ">>)
               /\ HasAt(s, c, <<":">>)
               /\ n2 >= 1
               /\ HasAt(s, f, <<" ", "-", "-", ">", " ">>)
               /\ HasAt(s, h, <<":">>)
               /\ n4 >= 1
               /\ HasAt(s, l, <<" ", "(">>)
               /\ ps # {}
        last == IF ps = {} THEN 0 ELSE CHOOSE j \in ps : \A i \in ps : i <= j
    IN  [ok        |-> ok,
         direction |-> d,
         srcip     |-> SubSeq(s, b, c - 1),
         srcport   |-> SubSeq(s, e, f - 1),
         dstip     |-> SubSeq(s, g, h - 1),
         dstport   |-> SubSeq(s, k, l - 1),
         proto     |-> SubSeq(s, m, m + last - 1)]

\* the dictionary of the except branch, lines 176-180
AddrNone ==
    [direction |-> NoneText, srcip |-> NoneText, srcport |-> NoneText,
     dstip |-> NoneText, dstport |-> NoneText, proto |-> NoneText]

\* the groups of a match as the dictionary of lines 173-175
AddrOf(m) ==
    [direction |-> m.direction, srcip |-> m.srcip, srcport |-> m.srcport,
     dstip |-> m.dstip, dstport |-> m.dstport, proto |-> m.proto]

\* splitaddr without its except branch, reading the groups of whatever
\* stands at the head of the line
splitaddr_unguarded(line) == AddrOf(MatchAddrAt(line, 1))

\* splitaddr, lines 160-181: re.search takes the leftmost match; without a
\* match m is None, m.groups() raises, and the bare except answers with
\* None in every field. memoize (lines 10-27) returns the value computed
\* for the same line before, which is this value
splitaddr(line) ==
    LET at == {p \in 1..Len(line) : MatchAddrAt(line, p).ok} IN
    IF at = {} THEN AddrNone
    ELSE AddrOf(MatchAddrAt(line, CHOOSE p \in at : \A q \in at : p <= q))

\* a variant of memoize that keeps the last value only
memoize_last(c, args) ==
    IF args \in DOMAIN c
    THEN [ret |-> c[args], cache |-> c, hit |-> TRUE]
    ELSE [ret |-> splitaddr(args), cache |-> (args :> splitaddr(args)), hit |-> FALSE]

\* wrapper of memoize, lines 20-25, around the function splitaddr decorates:
\* c is the dictionary cache; the value stored is the value returned
memoize(c, args) ==
    IF args \in DOMAIN c
    THEN [ret |-> c[args], cache |-> c, hit |-> TRUE]
    ELSE LET stored == (args :> splitaddr(args)) @@ c IN
         [ret |-> stored[args], cache |-> stored, hit |-> FALSE]

\* the Msg built in lines 129-132; src, len and trailer are not fields of
\* Msg: they record where the record began, how many lines of the file
\* were read for it (the last of them at position last) and the line that
\* ended it
MakeMsg(ls, ts, at, last) ==
    LET addr == splitaddr(ls[2]) IN
    [src       |-> at,
     len       |-> last + 1 - at[2],
     direction |-> addr.direction,
     srcip     |-> addr.srcip,
     srcport   |-> addr.srcport,
     dstip     |-> addr.dstip,
     dstport   |-> addr.dstport,
     proto     |-> addr.proto,
     timestamp |-> ts,
     body      |-> Concat(SubSeq(ls, 3, Len(ls) - 1)),
     method    |-> method_of(ls),
     trailer   |-> ls[Len(ls)]]

----------------------------------------------------------------------------
(* TracesbcSIPReader: __init__ gives the initial state, __next__ is one    *)
(* action per readline().                                                  *)

MaxRecs == 2

MaxLines == 6

\* the longest run of empty reads at the end of a file that sip_lines
\* records: a longer one reads the same, since only lines[1], lines[2]
\* and the non-empty lines are ever looked at
MaxEofPad == 2

\* the (methods, ignore_fnu) arguments a replay is constructed with; the
\* model follows the live file without filters
FilterInputs == { <<{}, FALSE>>, <<{INVITE}, FALSE>>, <<{}, TRUE>> }

RecSeqs == UNION { [1..k -> Shapes] : k \in 0..MaxRecs }

\* one entry of sip_opens
OpenEntry(f, pos, by) == [file |-> f, held |-> Len(flines[f]), pos |-> pos, by |-> by]

\* __init__ with a list that is not empty (lines 82-89): n files that
\* hold the records rs, file i those up to cut[i]; the file miss, if any,
\* has gone from the directory since the list was made
SipInitReplay ==
    \E n \in 1..MaxFiles : \E rs \in RecSeqs :
    \E cut \in [0..n -> 0..Len(rs)] : \E miss \in 0..n :
        /\ cut[0] = 0 /\ cut[n] = Len(rs)
        /\ \A i \in 1..n : cut[i - 1] <= cut[i]
        /\ sip_arg = "list"
        /\ \E flt \in FilterInputs : methods = flt[1] /\ ignore_fnu = flt[2]
        /\ frecs = [t \in Tokens |->
                      IF t <= n THEN SubSeq(rs, cut[t - 1] + 1, cut[t]) ELSE <<>>]
        /\ flines = [t \in Tokens |-> FileOfRecords(frecs[t])]
        /\ dir = [t \in Tokens |-> IF t <= n /\ t # miss THEN "plain" ELSE "absent"]
        /\ app_cur = 0
        /\ logfiles = [i \in 1..(n - 1) |-> i + 1]
        /\ total_logfiles = n
        /\ filename = 1
        /\ fd_pos = 0
        /\ dir_queried = FALSE
        /\ IF miss = 1
           THEN \* zopen raises FileNotFoundError: no reader is constructed
                /\ fd = NoFile
                /\ sip_pc = "failed"
                /\ sip_result = "FileNotFoundError"
                /\ sip_opens = <<>>
           ELSE /\ fd = 1
                /\ sip_pc = "idle"
                /\ sip_result = ""
                /\ sip_opens = <<OpenEntry(1, 0, "init")>>

\* the position fd.seek(0, 2) of __init__ leaves the stream at; a variant
\* leaves it at the start
SeekStart(f) == 0

SeekEnd(f) == Len(flines[f])

\* __init__ without logfiles, or with an empty list, which "if logfiles:"
\* takes for none (lines 90-94)
SipInitFollow ==
    /\ sip_arg \in {"None", "list"}
    /\ methods = {}
    /\ ignore_fnu = FALSE
    /\ InitDir
    /\ \E k \in 0..MaxLines :
          flines = [t \in Tokens |-> IF dir[t] # "absent" THEN LiveFile(k) ELSE <<>>]
    /\ frecs = [t \in Tokens |-> <<>>]
    /\ logfiles = <<>>
    /\ total_logfiles = 0
    /\ dir_queried = TRUE
    /\ IF Glob = {}
       THEN \* max() of an empty sequence: __init__ raises ValueError
            /\ filename = NoFile /\ fd = NoFile /\ fd_pos = 0
            /\ sip_pc = "failed" /\ sip_result = "ValueError"
            /\ sip_opens = <<>>
       ELSE /\ filename = MaxGlob
            /\ sip_pc = "idle" /\ sip_result = ""
            /\ IF dir[MaxGlob] = "gz"
               THEN fd = NoFile /\ fd_pos = 0 /\ sip_opens = <<>>
               ELSE /\ fd = MaxGlob
                    /\ fd_pos = SeekEnd(MaxGlob)
                    /\ sip_opens = <<OpenEntry(MaxGlob, SeekEnd(MaxGlob), "init")>>

InitSip ==
    /\ prog = "sip"
    /\ cutoff_time = 0
    /\ FnUnused
    /\ AppUnused
    /\ FramerUnused
    /\ TailUnused
    /\ fsize = [t \in Tokens |-> 0]
    /\ fd_closed = FALSE
    /\ sip_lines = <<>>
    /\ sip_at = <<>>
    /\ sip_spin = 0
    /\ sip_yielded = <<>>
    /\ (SipInitReplay \/ SipInitFollow)
    /\ open_streams = IF fd # NoFile THEN 1 ELSE 0

\* _is_last_tracesbc_gzipped() and, if it says no, zopen(self.filename):
\* lines 98-100, and 113-117 where fd.close() has gone before
\* a variant of OpenOffset: the stream stands at the end of the file
OpenAtEnd(f) == Len(flines[f])

\* zopen of an uncompressed file is open(filename): the stream stands at
\* the start of the file
OpenOffset(f) == 0

\* a variant of fd_close: the stream is left open
fd_close_skipped(n) == n

\* self.fd.close() of the open stream self.fd (lines 106, 112): the number
\* of open streams it leaves of n
fd_close(n) == n - 1

\* closed: fd.close() has gone before; n: the streams open at the call
SwitchToLatest(closed, n) ==
    /\ dir_queried' = TRUE
    /\ IF Glob = {}
       THEN \* max() raises ValueError
            /\ sip_result' = "ValueError"
            /\ sip_pc' = "idle"
            /\ fd_closed' = closed
            /\ open_streams' = n
            /\ UNCHANGED <<filename, fd, fd_pos, sip_opens>>
       ELSE /\ filename' = MaxGlob
            /\ fd_closed' = FALSE
            /\ IF dir[MaxGlob] = "gz"
               THEN /\ fd' = NoFile
                    /\ fd_pos' = 0
                    /\ sip_result' = "None"
                    /\ sip_pc' = "idle"
                    /\ open_streams' = n
                    /\ UNCHANGED sip_opens
               ELSE /\ fd' = MaxGlob
                    /\ open_streams' = n + 1
                    /\ fd_pos' = OpenOffset(MaxGlob)
                    /\ sip_pc' = "loop"
                    /\ sip_opens' = Append(sip_opens,
                          OpenEntry(MaxGlob, OpenOffset(MaxGlob), "next"))
                    /\ UNCHANGED sip_result

\* __next__ is called: lines 97-101
SipCall ==
    /\ prog = "sip"
    /\ sip_pc = "idle"
    /\ IF fd = NoFile
       THEN SwitchToLatest(FALSE, open_streams)
       ELSE /\ sip_pc' = "loop"
            /\ UNCHANGED <<filename, fd, fd_pos, fd_closed, sip_result, dir_queried,
                           sip_opens, open_streams>>
    /\ UNCHANGED <<prog, appVars, fnVars, frVars, dirVars, tailVars, sip_arg, frecs, flines, logfiles,
                   total_logfiles, methods, ignore_fnu, sip_lines, sip_at, sip_spin,
                   sip_yielded>>

\* the call ends: it returns None or raises exc
SipEnd(outcome) ==
    /\ sip_result' = outcome
    /\ sip_pc' = "idle"

\* one pass of the outer loop: lines 103-120
SipOuterRead ==
    /\ prog = "sip"
    /\ sip_pc = "loop"
    /\ IF fd_closed
       THEN \* readline() of a closed file raises ValueError
            /\ SipEnd("ValueError")
            /\ UNCHANGED <<logfiles, filename, fd, fd_pos, fd_closed, sip_lines,
                           sip_at, dir_queried, sip_opens, open_streams>>
       ELSE LET line == ReadLine(fd, fd_pos) IN
            IF line = <<>>
            THEN /\ UNCHANGED <<sip_lines, sip_at>>
                 /\ IF total_logfiles # 0
                    THEN /\ UNCHANGED dir_queried
                         /\ IF logfiles = <<>>
                            THEN \* pop(0) raises IndexError: StopIteration
                                 /\ SipEnd("StopIteration")
                                 /\ fd_closed' = TRUE
                                 /\ open_streams' = fd_close(open_streams)
                                 /\ UNCHANGED <<logfiles, filename, fd, fd_pos, sip_opens>>
                            ELSE /\ filename' = Head(logfiles)
                                 /\ logfiles' = Tail(logfiles)
                                 /\ IF dir[Head(logfiles)] # "plain"
                                    THEN \* zopen raises FileNotFoundError:
                                         \* self.fd stays the closed stream
                                         /\ SipEnd("FileNotFoundError")
                                         /\ fd_closed' = TRUE
                                         /\ open_streams' = fd_close(open_streams)
                                         /\ UNCHANGED <<fd, fd_pos, sip_opens>>
                                    ELSE /\ fd' = Head(logfiles)
                                         /\ fd_pos' = 0
                                         /\ open_streams' = fd_close(open_streams) + 1
                                         /\ sip_opens' = Append(sip_opens,
                                               OpenEntry(Head(logfiles), 0, "next"))
                                         /\ UNCHANGED <<fd_closed, sip_pc, sip_result>>
                    ELSE IF dir[filename] # "plain"
                    THEN \* not os.path.exists(self.filename)
                         /\ SwitchToLatest(TRUE, fd_close(open_streams))
                         /\ UNCHANGED logfiles
                    ELSE /\ SipEnd("None")
                         /\ UNCHANGED <<logfiles, filename, fd, fd_pos, fd_closed,
                                        dir_queried, sip_opens, open_streams>>
            ELSE /\ fd_pos' = fd_pos + 1
                 /\ IF StartsWith(line, <<"[">>)
                    THEN /\ sip_lines' = <<line>>
                         /\ sip_at' = <<fd, fd_pos>>
                         /\ sip_pc' = "inner"
                    ELSE UNCHANGED <<sip_lines, sip_at, sip_pc>>
                 /\ UNCHANGED <<logfiles, filename, fd, fd_closed, sip_result,
                                dir_queried, sip_opens, open_streams>>
    /\ UNCHANGED <<prog, appVars, fnVars, frVars, dirVars, tailVars, sip_arg, frecs, flines,
                   total_logfiles, methods, ignore_fnu, sip_spin, sip_yielded>>

\* the number of empty texts sip_lines ends with
RECURSIVE EofPad(_)
EofPad(ls) ==
    IF ls # <<>> /\ ls[Len(ls)] = <<>> THEN 1 + EofPad(SubSeq(ls, 1, Len(ls) - 1)) ELSE 0

\* one pass of the inner loop (line 122) and, when the line read ends the
\* record (line 121), lines 124-133
SipInnerRead ==
    /\ prog = "sip"
    /\ sip_pc = "inner"
    /\ LET raw  == ReadLine(fd, fd_pos)
           line == LStrip(raw, {"\r", "\n"})
           ls   == Append(sip_lines, line)
       IN  IF raw = <<>>
           THEN \* the end of the file: the loop goes on reading
                /\ IF EofPad(sip_lines) < MaxEofPad
                   THEN sip_lines' = ls /\ UNCHANGED sip_spin
                   ELSE sip_spin' = 1 - sip_spin /\ UNCHANGED sip_lines
                /\ UNCHANGED <<fd_pos, sip_pc, sip_result, sip_yielded, sip_at>>
           ELSE /\ fd_pos' = fd_pos + 1
                /\ sip_spin' = 0
                /\ IF ~EndsRecord(line)
                   THEN /\ sip_lines' = ls
                        /\ UNCHANGED <<sip_pc, sip_result, sip_yielded, sip_at>>
                   ELSE LET o == NextOutcome(ls) IN
                        /\ sip_lines' = <<>>
                        /\ sip_at' = <<>>
                        /\ IF o.kind = "continue"
                           THEN /\ sip_pc' = "loop"
                                /\ UNCHANGED <<sip_result, sip_yielded>>
                           ELSE /\ SipEnd(o.kind)
                                /\ sip_yielded' =
                                      IF o.kind = "Msg"
                                      THEN Append(sip_yielded, MakeMsg(ls, o.timestamp, sip_at, fd_pos))
                                      ELSE sip_yielded
    /\ UNCHANGED <<prog, appVars, fnVars, open_streams, frVars, dirVars, tailVars, sip_arg, frecs, flines, logfiles,
                   total_logfiles, methods, ignore_fnu, filename, fd, fd_closed,
                   dir_queried, sip_opens>>

\* the appliance appends the next line to its file (follow mode)
SipAppWrite ==
    /\ prog = "sip"
    /\ total_logfiles = 0
    /\ app_cur # 0
    /\ dir[app_cur] = "plain"
    /\ Len(flines[app_cur]) < MaxLines
    /\ flines' = [flines EXCEPT ![app_cur] = LiveFile(Len(@) + 1)]
    /\ UNCHANGED <<prog, appVars, fnVars, open_streams, frVars, dirVars, tailVars, sip_arg, frecs, logfiles,
                   total_logfiles, methods, ignore_fnu, filename, fd, fd_pos,
                   fd_closed, sip_pc, sip_lines, sip_at, sip_spin, sip_result,
                   sip_yielded, dir_queried, sip_opens>>

\* the directory changes (follow mode: replay does not look at it)
SipEnv ==
    /\ \/ AppRotate
       \/ \E t \in Tokens : Gzip(t)
       \/ \E t \in Tokens : Delete(t)
    /\ prog = "sip"
    /\ total_logfiles = 0
    /\ UNCHANGED <<prog, appVars, fnVars, open_streams, frVars, tailVars, sipVars>>

NextSipReader == SipCall \/ SipOuterRead \/ SipInnerRead

NextSip == NextSipReader \/ SipAppWrite \/ SipEnv

SpecSip == InitSip /\ [][NextSip]_vars

\* a replay alone, of files that are all there
InitReplay ==
    InitSip /\ total_logfiles # 0 /\ \A t \in 1..total_logfiles : dir[t] = "plain"

\* the caller keeps calling __next__ and a call keeps running.  The inner
\* loop can take a step exactly while sip_pc = "inner", so its weak fairness
\* is written out: it is left infinitely often or steps infinitely often.
FairSpecReplay ==
    /\ InitReplay
    /\ [][NextSipReader]_vars
    /\ WF_vars(SipCall)
    /\ WF_vars(SipOuterRead)
    /\ ([]<>(sip_pc # "inner") \/ []<><<SipInnerRead>>_vars)

\* the latest file is followed: __init__ took the branch of lines 90-94
InitSipFollow == InitSip /\ total_logfiles = 0

\* the same fairness for a reader that follows, beside an appliance that
\* may write, rotate, compress and delete, or not
FairSpecSipFollow ==
    /\ InitSipFollow
    /\ [][NextSip]_vars
    /\ WF_vars(SipCall)
    /\ WF_vars(SipOuterRead)
    /\ ([]<>(sip_pc # "inner") \/ []<><<SipInnerRead>>_vars)

----------------------------------------------------------------------------
(* The byte streams the framer is run on: up to MaxFrLines complete lines  *)
(* out of FrLineTexts, then an unfinished fragment out of FrTails.         *)

MaxFrLines == 3

FrLineTexts ==
    { <<"[", "a">>,                          \* first line of a record
      <<"a">>,                               \* any other line
      <<>>,                                  \* an empty line
      <<"-", "-", "-", "-", "-">>,           \* a trailer line
      <<"-", "-", "-", "-", "-", "\r">>,     \* a trailer line that ends in CR LF
      <<"-", "-", "-", "-">> }               \* four dashes: no trailer

FrTails == { <<>>, <<"a">> }

RECURSIVE WithNewlines(_)
WithNewlines(ls) ==
    IF ls = <<>> THEN <<>> ELSE Head(ls) \o <<"\n">> \o WithNewlines(Tail(ls))

FrStreams ==
    { WithNewlines(ls) \o t :
        ls \in UNION { [1..n -> FrLineTexts] : n \in 0..MaxFrLines }, t \in FrTails }

InitFramer ==
    /\ prog = "framer"
    /\ FnUnused
    /\ AppUnused
    /\ open_streams = 0
    /\ DirUnused
    /\ TailUnused
    /\ SipUnused
    /\ fr_input \in FrStreams
    /\ fr_pos = 0
    /\ fr_chunks = 0
    /\ message_buffer = FramerStart.buf
    /\ current_message_lines = FramerStart.lines
    /\ fr_delivered = FramerStart.out

\* read_continuously hands the next n bytes to process_chunk (line 106)
FeedChunk(n) ==
    /\ prog = "framer"
    /\ fr_pos + n <= Len(fr_input)
    /\ LET fs == process_chunk(FramerState, SubSeq(fr_input, fr_pos + 1, fr_pos + n))
       IN  /\ message_buffer' = fs.buf
           /\ current_message_lines' = fs.lines
           /\ fr_delivered' = fs.out
    /\ fr_pos' = fr_pos + n
    /\ fr_chunks' = IF fr_chunks = 0 THEN 1 ELSE 2
    /\ UNCHANGED <<prog, appVars, fnVars, open_streams, fr_input, dirVars, tailVars, sipVars>>

NextFramer == \E n \in 1..(MaxFrLines * 7 + 1) : FeedChunk(n)

SpecFramer == InitFramer /\ [][NextFramer]_vars

----------------------------------------------------------------------------
(* Claims about the framer.                                                *)

\* C8: chunk-boundary invariance.  Whatever chunks the bytes handed over so
\* far came in, the delivered messages, the pending bytes and the pending
\* lines are those of handing over the same bytes as one single chunk.
C8_ChunkBoundaryInvariance ==
    prog = "framer" =>
        FramerState = process_chunk(FramerStart, SubSeq(fr_input, 1, fr_pos))

\* C8 witness: after several chunks a message has been delivered, and the
\* last chunk ended inside a line while a later record was still open.
C8_Witness ==
    /\ prog = "framer"
    /\ fr_chunks = 2
    /\ fr_delivered # <<>>
    /\ message_buffer # <<>>
    /\ current_message_lines # <<>>

\* C9: every delivered record begins with a '['-line, so that no line seen
\* before the first '['-line or between a trailer and the next '['-line is
\* part of a delivered record.
C9_RecordsStartWithBracket ==
    prog = "framer" =>
        \A i \in 1..Len(fr_delivered) : StartsWith(fr_delivered[i], <<"[">>)

\* the complete lines among the bytes handed over so far
FrSeen ==
    LET parts == Split(SubSeq(fr_input, 1, fr_pos), "\n")
    IN  SubSeq(parts, 1, Len(parts) - 1)

\* the lines that end a record: stripped, at least 5 characters, all '-'
FrTrailers ==
    {i \in 1..Len(FrSeen) :
        LET t == Strip(FrSeen[i]) IN Len(t) >= 5 /\ \A k \in 1..Len(t) : t[k] = "-"}

\* the lines accumulated when line i is met: those after the trailer before
FrSegment(i) ==
    LET before == {t \in FrTrailers : t < i}
        from   == IF before = {} THEN 1
                  ELSE 1 + CHOOSE t \in before : \A u \in before : u <= t
    IN  SubSeq(FrSeen, from, i - 1)

\* what the framer has delivered and holds, if exactly the lines of
\* FrTrailers end a record and the records of the trailers in ends are
\* the ones delivered
FramedBy(ends) ==
    /\ Len(fr_delivered) = Cardinality(ends)
    /\ \A t \in ends :
          fr_delivered[Cardinality({u \in ends : u <= t})] = Join(FrSegment(t), "\n")
    /\ current_message_lines = FrSegment(Len(FrSeen) + 1)

\* C11: a complete line ends the record if and only if, stripped, it has
\* at least 5 characters that are all '-'; the lines accumulated before it
\* are then delivered as one record and the accumulator is empty.
C11_TrailerEndsRecord ==
    prog = "framer" => FramedBy({t \in FrTrailers : FrSegment(t) # <<>>})

\* C11 as amended: ... the lines accumulated before it are delivered as one
\* record unless they hold nothing but whitespace, and the accumulator is
\* empty afterwards in either case.
C11_TrailerEndsNonBlankRecord ==
    prog = "framer" =>
        FramedBy({t \in FrTrailers : Strip(Join(FrSegment(t), "\n")) # <<>>})

\* C11 witness: a record that holds a run of four dashes has been
\* delivered at a trailer line.
C11_Witness ==
    /\ prog = "framer"
    /\ \E i \in 1..Len(fr_delivered) :
          Contains(fr_delivered[i], <<"\n", "-", "-", "-", "-">>)
    /\ FrTrailers # {}
    /\ current_message_lines = <<>>

----------------------------------------------------------------------------
(* Claims about TraceSBCFileReader.read_continuously.                      *)

\* C1: whenever read_continuously opens a file after it has opened one
\* before (the latest file has changed), the new stream starts at byte
\* offset 0, so that the bytes the file already holds are delivered.
C1_RotationOpensAtZero ==
    [][(prog = "tail" /\ tail_pc = "open" /\ current_file # NoFile /\ tail_pc' = "read")
          => (handle_offset' = 0 /\ current_position' = 0)]_vars

\* C2: follow mode is gap-free.  Every byte appended to a file after the
\* reader opened it is eventually given to the callback, unless the reader
\* is stopped; also a byte of the old file that the reader had not read
\* when it found a new latest file.
C2_GapFree ==
    \A t \in Tokens : \A i \in 0..MaxBytes :
        (open_size[t] >= 0 /\ open_size[t] <= i /\ i < fsize[t])
            ~> (tail_pc = "stopped"
                \/ \E k \in 1..Len(tail_delivered) : tail_delivered[k] = <<t, i>>)

\* C12: a record left unfinished when its file is exhausted stays buffered
\* over empty polls and a switch of files and is delivered once, as
\* itself, when its trailer is written to the same or to the next file:
\* every delivered message is the '['-line of one record, and the lines
\* buffered are at most the '['-line of the record still unfinished.
C12_BufferedRecordSurvivesRotation ==
    prog = "msg" =>
        /\ \A i \in 1..Len(fr_delivered) : fr_delivered[i] = MsgHeader
        /\ current_message_lines \in {<<>>, <<MsgHeader>>}

\* C15: when no file of the directory matches the pattern the locator
\* reports none and read_continuously waits and retries: it is not ended
\* by the exception max() raises for an empty directory.
C15_EmptyDirectoryWaits ==
    prog = "tail" => ~(tail_pc = "stopped" /\ tail_exc = "ValueError")

\* C16: a latest file that has vanished between the listing and the open
\* does not end read_continuously: the open is retried at the next poll.
C16_OpenErrorRetried ==
    prog = "tail" => ~(tail_pc = "stopped" /\ tail_exc = "FileNotFoundError")

\* C3: in follow mode the first file the reader opens is positioned at its
\* end: nothing the file held at that open is ever delivered, by
\* TraceSBCFileReader or by TracesbcSIPReader constructed without logfiles.
C3_FirstOpenSkipsBacklog ==
    /\ prog = "tail" =>
          \A k \in 1..Len(tail_delivered) :
              tail_delivered[k][1] = tail_first
                  => tail_delivered[k][2] >= open_size[tail_first]
    /\ (prog = "sip" /\ sip_arg = "None" /\ sip_opens # <<>>) =>
          /\ sip_opens[1].pos = sip_opens[1].held
          /\ \A k \in 1..Len(sip_yielded) :
                sip_yielded[k].src[1] = sip_opens[1].file
                    => sip_yielded[k].src[2] >= sip_opens[1].held

\* C3 as amended: the open of the first file observed skips what the file
\* holds: the first open of TraceSBCFileReader, and the open TracesbcSIPReader
\* makes in __init__ when the latest file is not compressed.
C3_FirstObservedSkipsBacklog ==
    /\ prog = "tail" =>
          \A k \in 1..Len(tail_delivered) :
              tail_delivered[k][1] = tail_first
                  => tail_delivered[k][2] >= open_size[tail_first]
    /\ (prog = "sip" /\ sip_arg = "None" /\ sip_opens # <<>>
            /\ sip_opens[1].by = "init") =>
          /\ sip_opens[1].pos = sip_opens[1].held
          /\ \A k \in 1..Len(sip_yielded) :
                sip_yielded[k].src[1] = sip_opens[1].file
                    => sip_yielded[k].src[2] >= sip_opens[1].held

\* C3 witness: __init__ opened a file that held a whole record, and a
\* record written to that file later has been returned.
C3_Witness ==
    /\ prog = "sip" /\ sip_arg = "None"
    /\ sip_opens # <<>>
    /\ sip_opens[1].by = "init"
    /\ sip_opens[1].held >= Len(LiveRecord)
    /\ \E k \in 1..Len(sip_yielded) : sip_yielded[k].src[1] = sip_opens[1].file

\* C4: what read_continuously delivers is ordered and free of duplicates:
\* of two delivered bytes the later one is of a newer file, or of the same
\* file at a greater offset.
C4_OrderedNoDuplicates ==
    prog = "tail" =>
        \A j, k \in 1..Len(tail_delivered) :
            j < k =>
                \/ tail_delivered[j][1] < tail_delivered[k][1]
                \/ /\ tail_delivered[j][1] = tail_delivered[k][1]
                   /\ tail_delivered[j][2] < tail_delivered[k][2]

\* C4 witness: bytes of two files have been delivered, and the older file
\* is the latest again and open, the newer one having disappeared.
C4_Witness ==
    /\ prog = "tail"
    /\ \E j, k \in 1..Len(tail_delivered) :
          tail_delivered[j][1] < tail_delivered[k][1]
          /\ current_handle = tail_delivered[j][1]
          /\ dir[tail_delivered[k][1]] = "absent"
    /\ tail_pc = "read"

\* C26: whenever read_continuously has stopped, by cancellation, by an
\* exception of the callback or by an error of glob or open, no stream is
\* open: current_handle is None and current_position is 0
C26_ClosedOnExit ==
    (prog = "tail" /\ tail_pc = "stopped") =>
        (current_handle = NoFile /\ current_position = 0)

\* read_continuously has been cancelled after it delivered bytes
C26_Witness ==
    /\ prog = "tail"
    /\ tail_pc = "stopped"
    /\ tail_exc = "CancelledError"
    /\ tail_delivered # <<>>
    /\ current_handle = NoFile

\* C27: while a stream is open current_position is its byte offset; as
\* long as the stream stays the same it does not decrease and grows by
\* the length of the chunk delivered; without a stream it is 0
C27_CursorIsOffset ==
    [][prog = "tail" =>
          /\ current_position' =
                IF current_handle' = NoFile THEN 0 ELSE handle_offset'
          /\ (current_handle # NoFile /\ current_handle' = current_handle /\
              current_file' = current_file) =>
                /\ current_position' >= current_position
                /\ current_position' - current_position =
                      Len(tail_delivered') - Len(tail_delivered)]_vars

\* a chunk has been delivered from the open stream
C27_Witness ==
    /\ prog = "tail"
    /\ current_handle # NoFile
    /\ tail_delivered # <<>>
    /\ tail_delivered[Len(tail_delivered)] = <<current_handle, current_position - 1>>

----------------------------------------------------------------------------
(* The readers that follow the log directory, for the claims about both.   *)

InitFollow == InitTail \/ (InitSip /\ sip_arg = "None" /\ total_logfiles = 0)

NextFollow == NextTail \/ NextSip

SpecFollow == InitFollow /\ [][NextFollow]_vars

----------------------------------------------------------------------------
(* Claims about TracesbcSIPReader.                                         *)

\* where the records of the replayed files begin, in the order of the list
RECURSIVE RecordStarts(_, _, _)
RecordStarts(f, rs, at) ==
    IF rs = <<>> THEN <<>>
    ELSE <<<<f, at>>>> \o RecordStarts(f, Tail(rs), at + Len(RecordLines(Head(rs))))

RECURSIVE ExpectedStarts(_)
ExpectedStarts(f) ==
    IF f > MaxFiles THEN <<>> ELSE RecordStarts(f, frecs[f], 0) \o ExpectedStarts(f + 1)

WellFormedReplay ==
    /\ prog = "sip" /\ sip_arg = "list" /\ total_logfiles # 0
    /\ \A t \in 1..total_logfiles : dir[t] = "plain"
    /\ methods = {} /\ ~ignore_fnu
    /\ \A t \in Tokens : \A i \in 1..Len(frecs[t]) : frecs[t][i] \in WellFormedShapes

\* C5: a replay of files that hold only well-formed records yields one Msg
\* per record, in the order of the files and of the records in them, reads
\* every file from its start, and then raises StopIteration (fd_closed
\* says that it has: calls made after that are not this claim's).
C5_ReplayOneMsgPerRecord ==
    WellFormedReplay =>
        /\ ~fd_closed => sip_result \in {"", "Msg"}
        /\ \A i \in 1..Len(sip_opens) : sip_opens[i].pos = 0 /\ sip_opens[i].file = i
        /\ Len(sip_yielded) <= Len(ExpectedStarts(1))
        /\ \A k \in 1..Len(sip_yielded) : sip_yielded[k].src = ExpectedStarts(1)[k]
        /\ fd_closed => Len(sip_yielded) = Len(ExpectedStarts(1))

\* C6: a replay always comes to its end: whatever the files hold, also a
\* file that ends inside a record, the calls of __next__ lead to the
\* StopIteration of line 110.
C6_ReplayTerminates == <>(sip_result = "StopIteration")

\* C7: constructed with a list that is empty, the reader replays: it
\* signals StopIteration, it never asks for the files of the log directory
\* and it opens no file.
C7_EmptyListIsReplay ==
    (prog = "sip" /\ sip_arg = "list" /\ total_logfiles = 0) =>
        /\ ~dir_queried
        /\ sip_opens = <<>>
        /\ sip_result \in {"", "StopIteration"}

\* C10: a record ends only at a trailer line, a line of at least 5
\* characters that are all '-': the line that ended a returned Msg is one.
C10_RecordEndsAtTrailer ==
    prog = "sip" =>
        \A k \in 1..Len(sip_yielded) : EndsRecordAtTrailer(sip_yielded[k].trailer)

\* C13: in follow mode every call of __next__ comes to its end, also one
\* that finds its file exhausted in the middle of a record.
C13_FollowCallReturns ==
    (prog = "sip" /\ sip_pc \in {"loop", "inner"}) ~> (sip_pc = "idle")

\* C14: in follow mode a rotation is detected: when a file newer than the
\* one being read is the latest, is not compressed and holds a whole
\* record, a record of it is eventually returned, although the file read
\* before is still there (unless the new file is compressed, deleted or
\* succeeded in its turn, or a call is held inside an unfinished record).
C14_RotationDetected ==
    \A t \in Tokens :
        (/\ prog = "sip" /\ total_logfiles = 0
         /\ filename # NoFile /\ filename < t
         /\ dir[t] = "plain" /\ \A u \in Tokens : u > t => dir[u] = "absent"
         /\ Len(flines[t]) >= Len(LiveRecord))
        ~> (\/ dir[t] # "plain"
            \/ \E u \in Tokens : u > t /\ dir[u] # "absent"
            \/ sip_pc = "inner"
            \/ \E k \in 1..Len(sip_yielded) : sip_yielded[k].src[1] = t)

\* C17: in replay a file of the list that cannot be opened is skipped: no
\* call of __next__ ends with the error of the open, the reader goes on
\* to the files after it.
C17_MissingFileSkipped ==
    (prog = "sip" /\ total_logfiles # 0 /\ sip_pc # "failed") =>
        sip_result # "FileNotFoundError"


\* C18: in replay a record whose '['-line holds no well-formed timestamp
\* is still turned into a Msg: no call of a reader whose stream is open
\* ends with the ValueError of strptime
C18_MalformedTimestampStillEmitted ==
    (prog = "sip" /\ total_logfiles # 0 /\ ~fd_closed) =>
        sip_result # "ValueError"


\* a replay whose files all exist, and the reader's steps alone
SpecReplay == InitReplay /\ [][NextSipReader]_vars

\* what the line named id adds to a body: readline() hands it over with
\* its newline, and a blank line is stripped to nothing
BodyLine(id) == IF LineText(id) = <<>> THEN <<>> ELSE LineText(id) \o <<"\n">>

\* the lines of file f after the first two of the record that begins at
\* position p and was read as n lines, without the line that ended it
RemainingLines(f, p, n) == [i \in 1..(n - 3) |-> BodyLine(flines[f][p + 2 + i])]

\* the groups of the address line the files are written with
AddrFields ==
    [direction |-> <<"I", "N">>,
     srcip     |-> <<"1", ".", "1", ".", "1", ".", "1">>,
     srcport   |-> <<"5", "0", "6", "0">>,
     dstip     |-> <<"2", ".", "2", ".", "2", ".", "2">>,
     dstport   |-> <<"5", "0", "6", "1">>,
     proto     |-> <<"U", "D", "P">>]

\* the address fields of a Msg
FieldsOf(msg) ==
    [direction |-> msg.direction, srcip |-> msg.srcip, srcport |-> msg.srcport,
     dstip |-> msg.dstip, dstport |-> msg.dstport, proto |-> msg.proto]

\* C19: a record whose second line is not an address line is still
\* returned as a Msg: splitaddr does not raise, the Msg's direction, srcip,
\* srcport, dstip, dstport and proto are None and its body is made of the
\* remaining lines; an address line gives its groups
C19_LenientAddressLine ==
    prog = "sip" =>
        \A k \in 1..Len(sip_yielded) :
           LET msg == sip_yielded[k]
               f   == msg.src[1]
               p   == msg.src[2]
           IN  /\ msg.body = Concat(RemainingLines(f, p, msg.len))
               /\ FieldsOf(msg) = IF flines[f][p + 2] = "addr" THEN AddrFields
                                                                ELSE AddrNone

\* a Msg with a body has been returned for a record without an address line
C19_Witness ==
    /\ prog = "sip"
    /\ \E k \in 1..Len(sip_yielded) :
          /\ flines[sip_yielded[k].src[1]][sip_yielded[k].src[2] + 2] # "addr"
          /\ sip_yielded[k].body # <<>>
          /\ sip_yielded[k].srcip = NoneText


\* C20: with a method allow-list every Msg returned has its method in the
\* list
C20_AllowListHolds ==
    (prog = "sip" /\ methods # {}) =>
        \A k \in 1..Len(sip_yielded) : sip_yielded[k].method \in methods


\* C21: with ignore_fnu a record is dropped exactly when its third line
\* holds a marker; every other record, also one of fewer than three lines,
\* is returned without an error: no call ends with the IndexError of
\* lines[2]
C21_IgnoreFnuDropsMarkedOnly ==
    (prog = "sip" /\ ignore_fnu) => sip_result # "IndexError"


\* C23: the Msg of a record whose first line is '[' + TsText + ']' and
\* the line end carries the month, day, year, hour, minute, second of
\* TsText and all six digits of its microseconds
C23_TimestampExact ==
    prog = "sip" =>
        \A k \in 1..Len(sip_yielded) :
           LET msg == sip_yielded[k] IN
           flines[msg.src[1]][msg.src[2] + 1] = "hdr" =>
              /\ msg.timestamp.month = ToInt(SubSeq(TsText, 1, 2))
              /\ msg.timestamp.day = ToInt(SubSeq(TsText, 4, 5))
              /\ msg.timestamp.year = ToInt(SubSeq(TsText, 7, 10))
              /\ msg.timestamp.hour = ToInt(SubSeq(TsText, 12, 13))
              /\ msg.timestamp.minute = ToInt(SubSeq(TsText, 15, 16))
              /\ msg.timestamp.second = ToInt(SubSeq(TsText, 18, 19))
              /\ msg.timestamp.microsecond = ToInt(SubSeq(TsText, 21, 26))


\* a step of the reader that follows the directory
FollowStep ==
    /\ prog = "sip" /\ total_logfiles = 0
    /\ dir' = dir /\ flines' = flines

\* the latest file is there and is compressed
LatestIsGz == Glob # {} /\ dir[MaxGlob] = "gz"

\* the latest file is there and is not compressed
LatestIsPlain == Glob # {} /\ dir[MaxGlob] = "plain"

\* C28: in follow mode, when the file read is exhausted and its name has
\* gone, or when no stream is held at a call, the reader opens the latest
\* file at offset 0 if it is not compressed, and returns None without a
\* stream if it is; every call without a stream asks the locator again.
\* The Msgs of a file opened this way are its records, one after the
\* other from its first
C28_SwitchAfterFileGone ==
    [][FollowStep =>
          /\ ((\/ sip_pc = "idle" /\ fd = NoFile
               \/ /\ sip_pc = "loop" /\ fd # NoFile /\ ~fd_closed
                  /\ fd_pos = Len(flines[fd]) /\ dir[filename] # "plain") =>
                /\ LatestIsPlain =>
                      /\ fd' = MaxGlob /\ fd_pos' = 0 /\ sip_pc' = "loop"
                      /\ sip_opens' = Append(sip_opens, OpenEntry(MaxGlob, 0, "next"))
                /\ LatestIsGz =>
                      /\ fd' = NoFile /\ sip_result' = "None" /\ sip_pc' = "idle"
                      /\ filename' = MaxGlob)
          /\ \A k \in 1..Len(sip_yielded') :
                LET f == sip_yielded'[k].src[1] IN
                (\E o \in 1..Len(sip_opens') :
                    sip_opens'[o].file = f /\ sip_opens'[o].by = "next") =>
                   sip_yielded'[k].src[2] = Len(LiveRecord) *
                      Cardinality({j \in 1..(k - 1) : sip_yielded'[j].src[1] = f})]_vars

\* after its file was exhausted and had gone the reader has opened the
\* latest file and has returned its second record
C28_Witness ==
    /\ prog = "sip" /\ total_logfiles = 0
    /\ \E o \in 2..Len(sip_opens) :
          /\ sip_opens[o].by = "next"
          /\ \E k \in 1..Len(sip_yielded) :
                sip_yielded[k].src = <<sip_opens[o].file, Len(LiveRecord)>>

\* C29: in replay, once a call has raised StopIteration every later call
\* raises StopIteration: no later call ends in another way
C29_StopIterationAbsorbing ==
    [][(prog = "sip" /\ total_logfiles # 0 /\ sip_result = "StopIteration") =>
          sip_result' = "StopIteration"]_vars

\* the three readers: TraceSBCFileReader (chunks and messages),
\* TraceFileReader and TracesbcSIPReader (replay and follow)
InitReaders == InitTail \/ InitMsg \/ InitTrace \/ InitSip

NextReaders == NextTail \/ NextSip \/ TraceEnv

SpecReaders == InitReaders /\ [][NextReaders]_vars

\* the stream the reader's field refers to, if it is open
HeldStreams ==
    IF prog \in TailProgs THEN (IF current_handle # NoFile THEN 1 ELSE 0)
    ELSE IF prog = "sip" THEN (IF fd # NoFile /\ ~fd_closed THEN 1 ELSE 0)
    ELSE 0

\* C30: in every reader at most one stream is open at any time, and every
\* open stream is the one the reader's field refers to: the old stream is
\* closed before the new one is opened and none is dropped unclosed
C30_AtMostOneStreamOpen ==
    /\ open_streams <= 1
    /\ open_streams = HeldStreams

\* a SIP reader that has switched to its second file holds one stream, and
\* so does a TraceFileReader that has read to the end of a file
C30_Witness ==
    /\ open_streams = 1
    /\ \/ prog = "sip" /\ Len(sip_opens) >= 2
       \/ prog = "trace" /\ current_handle # NoFile /\ tail_first # current_handle

\* the readers of C31: TraceSBCFileReader, and TracesbcSIPReader without
\* logfiles
FollowsDirectory ==
    \/ prog \in {"tail", "msg"}
    \/ prog = "sip" /\ total_logfiles = 0

\* a step in which the reader opens a stream
OpensStream ==
    \/ prog \in TailProgs /\ tail_pc = "open" /\ tail_pc' = "read"
    \/ prog = "sip" /\ Len(sip_opens') > Len(sip_opens)

\* a step in which something is delivered
Delivers ==
    \/ tail_delivered' # tail_delivered
    \/ fr_delivered' # fr_delivered
    \/ sip_yielded' # sip_yielded

\* a step in which the reader asks for the latest file
LooksUpLatest ==
    /\ dir' = dir
    /\ \/ /\ prog \in TailProgs /\ tail_pc = "check" /\ tail_pc' # "stopped"
          /\ fsize' = fsize
       \/ /\ prog = "sip" /\ flines' = flines
          /\ \/ sip_pc = "idle" /\ fd = NoFile
             \/ /\ sip_pc = "loop" /\ fd # NoFile /\ ~fd_closed
                /\ fd_pos = Len(flines[fd]) /\ dir[filename] # "plain"

\* C31 as first stated: following the directory, no step opens a
\* compressed file, and no step taken while the latest file is compressed
\* opens a stream or delivers anything
C31_IdleWhileLatestGz ==
    [][FollowsDirectory =>
          /\ OpensStream => \A t \in Tokens : dir[t] = "gz" =>
                                current_handle' # t /\ fd' # t
          /\ (LatestIsGz /\ dir' = dir) => ~OpensStream /\ ~Delivers]_vars

\* C31: following the directory, a file that is opened is not compressed,
\* and a step that asks for the latest file and finds it compressed opens
\* nothing, delivers nothing and leaves the reader where it asks again at
\* its next cycle or call; TraceSBCFileReader opens and reads only what its last look found
C31_NeverOpensGz ==
    [][FollowsDirectory =>
          /\ (prog \in TailProgs /\ latest_file' # latest_file
                 /\ latest_file' # NoFile) => dir[latest_file'] = "plain"
          /\ (prog \in TailProgs /\ OpensStream) =>
                 current_handle' = latest_file /\ dir[latest_file] = "plain"
          /\ (prog = "sip" /\ OpensStream) =>
                 fd' = MaxGlob /\ dir[MaxGlob] = "plain"
          /\ (prog \in TailProgs /\ tail_pc \in {"open", "read"}) =>
                 latest_file # NoFile
          /\ (LooksUpLatest /\ LatestIsGz) =>
                 /\ ~OpensStream /\ ~Delivers
                 /\ prog \in TailProgs =>
                       /\ tail_pc' = "sleep" /\ latest_file' = NoFile
                       /\ current_handle' = current_handle
                 /\ prog = "sip" =>
                       fd' = NoFile /\ sip_pc' = "idle" /\ sip_result' = "None"]_vars

\* a TraceSBCFileReader that has read a file finds the latest file
\* compressed and waits; a SIP reader that found it compressed holds nothing
C31_Witness ==
    /\ LatestIsGz
    /\ \/ /\ prog = "tail" /\ tail_pc = "sleep" /\ latest_file = NoFile
          /\ current_file # NoFile /\ tail_delivered # <<>>
       \/ /\ prog = "sip" /\ total_logfiles = 0 /\ sip_pc = "idle"
          /\ fd = NoFile /\ sip_result = "None" /\ sip_yielded # <<>>

\* replay of a list whose files may have gone since the list was made
InitReplayAny == InitSip /\ total_logfiles # 0

SpecReplayAny == InitReplayAny /\ [][NextSipReader]_vars

\* a variant of progress: the percentage of the list still queued
progress_left(k, n) == IF n # 0 THEN (100 * k) \div n ELSE 100

\* the property progress of a reader with k files queued of n supplied:
\* int(100 - (k / float(n) * 100)), which for a list of fewer than 20
\* files is the integer part of the exact quotient
progress(k, n) == IF n # 0 THEN (100 * (n - k)) \div n ELSE 100

\* the list given to __init__, and the files opened so far, in order
SuppliedList == [i \in 1..total_logfiles |-> i]

OpenedFiles == [i \in 1..Len(sip_opens) |-> sip_opens[i].file]

\* the file taken from the queue last whose open raised, if there is one
FailedOpen ==
    IF sip_opens = <<>> \/ sip_opens[Len(sip_opens)].file # filename
    THEN <<filename>> ELSE <<>>

\* a reader constructed with a list of files
ReplayReader == prog = "sip" /\ total_logfiles # 0 /\ sip_pc # "failed"

ProgressNow == progress(Len(logfiles), total_logfiles)

\* what C32 says of progress
ProgressClaim ==
    /\ ProgressNow \in 0..100
    /\ ProgressNow' >= ProgressNow
    /\ logfiles = <<>> => ProgressNow = 100

C33_ReadsWhileNewest ==
    \A t \in Tokens : \A i \in 0..MaxBytes :
        (prog = "trace" /\ i < fsize[t])
            ~> (\/ tail_pc = "stopped"
                \/ Glob = {}
                \/ MaxGlob # t
                \/ \E k \in 1..Len(tail_delivered) : tail_delivered[k] = <<t, i>>)

----------------------------------------------------------------------------
(* The static methods of TracesbcSIPReader and the locators, called on      *)
(* their own with arguments out of small sets.                              *)

\* no reader runs
ReadersUnused ==
    FramerUnused /\ DirUnused /\ TailUnused /\ SipUnused /\ open_streams = 0

\* the longest list of lines _method is called with
MaxMethodLines == 3

\* the lines _method is called with, by name
MethodLineIds == {"cseq", "cseqopt", "cseq2", "cseq4", "cseqtab", "spcseq", "request"}

MethodInputs == UNION { [1..k -> MethodLineIds] : k \in 0..MaxMethodLines }

\* the lines as readline() hands them over
TextsOf(ids) == [i \in 1..Len(ids) |-> LineText(ids[i]) \o <<"\n">>]

InitMethod ==
    /\ prog = "method"
    /\ ReadersUnused
    /\ AppUnused
    /\ fn_pc = "ready"
    /\ fn_arg \in MethodInputs
    /\ fn_ret = <<>>
    /\ cache = <<>>

\* self._method(lines) is called and returns
MethodCall ==
    /\ prog = "method"
    /\ fn_pc = "ready"
    /\ fn_ret' = method_of(TextsOf(fn_arg))
    /\ fn_pc' = "done"
    /\ UNCHANGED <<prog, appVars, open_streams, frVars, dirVars, tailVars, sipVars, fn_arg, cache>>

SpecMethod == InitMethod /\ [][MethodCall]_vars

\* the lines that begin with CSeq, and the third token of those of three
CSeqLineIds == {"cseq", "cseqopt", "cseq2", "cseq4", "cseqtab"}

ThirdToken(id) ==
    CASE id \in {"cseq", "cseqtab"} -> INVITE
      [] id = "cseqopt"             -> <<"O", "P", "T", "I", "O", "N", "S">>
      [] OTHER                      -> <<>>

\* C22: _method answers with the third token of the first line that
\* begins with CSeq if that line has exactly three tokens, and with the
\* empty string otherwise, whatever the later lines are
C22_MethodOfFirstCSeq ==
    (prog = "method" /\ fn_pc = "done") =>
        LET at == {i \in 1..Len(fn_arg) : fn_arg[i] \in CSeqLineIds} IN
        fn_ret = IF at = {} THEN <<>>
                 ELSE ThirdToken(fn_arg[CHOOSE i \in at : \A j \in at : i <= j])

\* _method has answered with the empty string for lines whose first CSeq
\* line has two tokens and whose second has three
C22_Witness ==
    /\ prog = "method" /\ fn_pc = "done"
    /\ Len(fn_arg) >= 2
    /\ fn_arg[1] = "cseq2" /\ fn_arg[2] = "cseq"
    /\ fn_ret = <<>>


\* the lines splitaddr is called with, by name
MemoLineIds == {"addr", "addrout", "cseq", "request", "trailer", "hdr"}

\* the module has been imported: the cache is empty
InitMemo ==
    /\ prog = "memo"
    /\ ReadersUnused
    /\ AppUnused
    /\ fn_pc = "ready"
    /\ fn_arg = <<>>
    /\ fn_ret = <<>>
    /\ cache = <<>>

\* TracesbcSIPReader.splitaddr(line) is called and returns
MemoCall(id) ==
    /\ prog = "memo"
    /\ LET r == memoize(cache, LineText(id) \o <<"\n">>) IN
       /\ fn_arg' = id
       /\ fn_ret' = r.ret
       /\ cache' = r.cache
       /\ fn_pc' = IF r.hit THEN "hit" ELSE "miss"
    /\ UNCHANGED <<prog, appVars, open_streams, frVars, dirVars, tailVars, sipVars>>

NextMemo == \E id \in MemoLineIds : MemoCall(id)

SpecMemo == InitMemo /\ [][NextMemo]_vars

\* what the pattern gives for each of the lines
UncachedParse(id) ==
    CASE id = "addr"    -> AddrFields
      [] id = "addrout" ->
            [direction |-> <<"O", "U", "T">>,
             srcip     |-> <<"2", ".", "2", ".", "2", ".", "2">>,
             srcport   |-> <<"5", "0", "6", "1">>,
             dstip     |-> <<"1", ".", "1", ".", "1", ".", "1">>,
             dstport   |-> <<"5", "0", "6", "0">>,
             proto     |-> <<"T", "L", "S">>]
      [] OTHER          -> AddrNone

\* C24: every call of the memoized splitaddr returns what the uncached
\* parse of its line gives, every entry of the cache is kept with its
\* value, and the entries of the other lines are what they were
C24_MemoizedIdempotence ==
    [][prog = "memo" =>
          /\ fn_ret' = UncachedParse(fn_arg')
          /\ \A line \in DOMAIN cache :
                line \in DOMAIN cache' /\ cache'[line] = cache[line]
          /\ \A id \in MemoLineIds :
                LineText(id) \o <<"\n">> \in DOMAIN cache' =>
                   cache'[LineText(id) \o <<"\n">>] = UncachedParse(id)]_vars

\* the address line has been answered from a cache that holds another
\* address line too
C24_Witness ==
    /\ prog = "memo"
    /\ fn_pc = "hit"
    /\ fn_arg = "addr"
    /\ fn_ret = AddrFields
    /\ LineText("addrout") \o <<"\n">> \in DOMAIN cache


\* the numeric tokens of the names the locators are run on: all match
\* tracesbc_sip_[1-9][0-9][0-9]*[!_][!_], with five, six and seven digits
LocatorTokens == {20000, 99998, 99999, 100000, 100001, 1000000}

RECURSIVE Decimal(_)
\* the digits of n as they stand in a file name
Decimal(n) ==
    IF n < 10 THEN <<CHOOSE c \in Digits : DigitValue(c) = n>>
    ELSE Append(Decimal(n \div 10), CHOOSE c \in Digits : DigitValue(c) = n % 10)

RECURSIVE StrLess(_, _)
\* a < b for two str (or two Path of one directory) made of digits after
\* a common prefix: the first character that differs decides, and a
\* proper prefix is smaller
StrLess(a, b) ==
    IF b = <<>> THEN FALSE
    ELSE IF a = <<>> THEN TRUE
    ELSE IF Head(a) # Head(b) THEN DigitValue(Head(a)) < DigitValue(Head(b))
    ELSE StrLess(Tail(a), Tail(b))

\* max(glob(...)), by token: the name no other name is greater than
max_name(tokens) ==
    CHOOSE t \in tokens : \A u \in tokens : ~StrLess(Decimal(t), Decimal(u))

InitLocator ==
    /\ prog = "locator"
    /\ ReadersUnused
    /\ AppUnused
    /\ fn_pc = "ready"
    /\ fn_arg \in (SUBSET LocatorTokens) \ {{}}
    /\ fn_ret = <<>>
    /\ cache = <<>>

\* last_tracesbc_sip() or _get_latest_file() is called on a directory that
\* holds the uncompressed files of the tokens fn_arg
LocatorCall ==
    /\ prog = "locator"
    /\ fn_pc = "ready"
    /\ fn_ret' = max_name(fn_arg)
    /\ fn_pc' = "done"
    /\ UNCHANGED <<prog, appVars, open_streams, frVars, dirVars, tailVars, sipVars, fn_arg, cache>>

SpecLocator == InitLocator /\ [][LocatorCall]_vars

\* C25: the locator answers with the file whose token is numerically the
\* greatest, also when the tokens differ in their number of digits
C25_LatestIsNumericMax ==
    (prog = "locator" /\ fn_pc = "done") =>
        \A t \in fn_arg : t <= fn_ret

----------------------------------------------------------------------------
(* main.py: showflows runs the showflow command and puts its output on an  *)
(* asyncio.Queue, analyze_flows gets the items and prints the flows that   *)
(* have received nothing.  flow.py parses the output.                      *)

\* runs of the command and lines of one output
MaxRuns == 2

MaxOutLines == 2

\* None
NoTime == 0

\* the value of one hexadecimal digit, -1 for another character
HexDigit(c) ==
    CASE c = "0" -> 0 [] c = "1" -> 1 [] c = "a" -> 10 [] OTHER -> -1

RECURSIVE HexValue(_)
HexValue(str) ==
    IF str = <<>> THEN 0
    ELSE 16 * HexValue(SubSeq(str, 1, Len(str) - 1)) + HexDigit(str[Len(str)])

\* hex_to_dec (flow.py, lines 48-52): int(_str, 16), 0 on ValueError
hex_to_dec(str) ==
    IF str = <<>> \/ \E i \in 1..Len(str) : HexDigit(str[i]) = -1 THEN 0
    ELSE HexValue(str)

\* the lines of an output: a line reFLOW does not match, and flow lines
\* with their In ports and the text of their Rx counter
JunkLine == [matches |-> FALSE, InSrcPort |-> 0, InDstPort |-> 0, Rx |-> <<>>]

FlowLines ==
    {[matches |-> TRUE, InSrcPort |-> pp[1], InDstPort |-> pp[2], Rx |-> rx] :
        pp \in {<<2052, 35048>>, <<2053, 35049>>, <<2053, 35048>>},
        rx \in {<<"0">>, <<"1", "a">>}}
    \cup {[matches |-> TRUE, InSrcPort |-> 2052, InDstPort |-> 35048, Rx |-> <<"g">>]}

OutputLines == {JunkLine} \cup FlowLines

RECURSIVE OutputsUpTo(_)
OutputsUpTo(n) ==
    IF n = 0 THEN {<<>>}
    ELSE OutputsUpTo(n - 1) \cup
         {Append(o, l) : o \in {x \in OutputsUpTo(n - 1) : Len(x) = n - 1},
                         l \in OutputLines}

\* CommandResult.__init__ (main.py, lines 45-60)
CommandResult(stdout, stderr, returncode, name, timestamp) ==
    [stdout |-> stdout, stderr |-> stderr, returncode |-> returncode,
     timestamp |-> NoTime, name |-> name]

\* Flow.from_regex (flow.py, lines 80-106) of line number k of an output
from_regex(line, k, timestamp) ==
    [line |-> k, InSrcPort |-> line.InSrcPort, InDstPort |-> line.InDstPort,
     Rx |-> hex_to_dec(line.Rx), timestamp |-> timestamp]

\* Flow.is_rtcp (flow.py, lines 108-109)
is_rtcp(flow) == flow.InSrcPort % 2 = 1 /\ flow.InDstPort % 2 = 1

RECURSIVE FlowsFrom(_, _, _, _)
FlowsFrom(output, timestamp, no_rtcp, k) ==
    IF k > Len(output) THEN <<>>
    ELSE LET flow == from_regex(output[k], k, timestamp)
             rest == FlowsFrom(output, timestamp, no_rtcp, k + 1)
         IN  IF output[k].matches /\ (~no_rtcp \/ ~is_rtcp(flow))
             THEN <<flow>> \o rest
             ELSE rest

\* a variant of parse_showflow_310 that keeps the RTCP flows
parse_showflow_310_rtcp(output, timestamp, no_rtcp) ==
    FlowsFrom(output, timestamp, FALSE, 1)

\* parse_showflow_310 (flow.py, lines 120-140)
parse_showflow_310(output, timestamp, no_rtcp) ==
    FlowsFrom(output, timestamp, no_rtcp, 1)

InitFlows ==
    /\ prog = "flows"
    /\ ReadersUnused
    /\ FnUnused
    /\ JsonUnused
    /\ SbceUnused
    /\ queue = <<>>
    /\ commands_run = 0
    /\ put_log = <<>>
    /\ got_log = <<>>
    /\ printed = <<>>

\* one pass of the loop of showflows (main.py, lines 78-103): the command
\* is run, or create_subprocess_shell raises, which is logged
showflows ==
    /\ prog = "flows"
    /\ commands_run < MaxRuns
    /\ commands_run' = commands_run + 1
    /\ \E raised \in BOOLEAN, returncode \in {0, 1},
          stdout_text \in OutputsUpTo(MaxOutLines), stderr_text \in {"", "warning"} :
          IF ~raised /\ returncode = 0 /\ stdout_text # <<>>
          THEN LET now == commands_run + 1
                   commandresult ==
                       CommandResult(stdout_text, stderr_text, returncode, "showflow", now)
               IN  /\ queue' = Append(queue, [id |-> Len(put_log) + 1,
                                              result |-> commandresult])
                   /\ put_log' = Append(put_log, [item |-> commandresult, passed |-> now])
          ELSE UNCHANGED <<queue, put_log>>
    /\ UNCHANGED <<prog, frVars, dirVars, tailVars, sipVars, fnVars, open_streams,
                   jsonVars, sbceVars, got_log, printed>>

\* the lines print() writes for the flows of item id
RECURSIVE PrintFlows(_, _)
PrintFlows(id, flows) ==
    IF flows = <<>> THEN <<>>
    ELSE LET flow == Head(flows) IN
         (IF flow.Rx > 0 THEN <<>>
          ELSE <<[item |-> id, line |-> flow.line, timestamp |-> flow.timestamp]>>)
         \o PrintFlows(id, Tail(flows))

\* one pass of the loop of analyze_flows (main.py, lines 107-127)
analyze_flows ==
    /\ prog = "flows"
    /\ queue # <<>>
    /\ LET commandresult == Head(queue).result IN
       /\ queue' = Tail(queue)
       /\ got_log' = Append(got_log, Head(queue).id)
       /\ IF commandresult.stderr # ""
          THEN UNCHANGED printed
          ELSE printed' = printed \o
                  PrintFlows(Head(queue).id,
                             parse_showflow_310(commandresult.stdout,
                                                commandresult.timestamp, TRUE))
    /\ UNCHANGED <<prog, frVars, dirVars, tailVars, sipVars, fnVars, open_streams,
                   jsonVars, sbceVars, commands_run, put_log>>

NextFlows == showflows \/ analyze_flows

SpecFlows == InitFlows /\ [][NextFlows]_vars

\* the numbers of the items in the queue, and 1..n
QueuedIds == [i \in 1..Len(queue) |-> queue[i].id]

UpTo(n) == [i \in 1..n |-> i]

\* line k of item id is a flow to report: its item has been analysed and
\* was not skipped, it is a flow, not RTCP, and its Rx counter is 0
ToReport(id, k) ==
    LET item == put_log[id].item IN
    /\ \E j \in 1..Len(got_log) : got_log[j] = id
    /\ item.stderr = ""
    /\ k \in 1..Len(item.stdout)
    /\ item.stdout[k].matches
    /\ ~(item.stdout[k].InSrcPort % 2 = 1 /\ item.stdout[k].InDstPort % 2 = 1)
    /\ hex_to_dec(item.stdout[k].Rx) = 0

C35_FlowCarriesRunTimestamp ==
    prog = "flows" =>
       \A p \in 1..Len(printed) :
          printed[p].timestamp = put_log[printed[p].item].passed

----------------------------------------------------------------------------
(* rtcp_monitor.py: JSONPacketBuffer collects the lines tshark writes      *)
(* until a packet is complete and gives the parsed packet to a callback.   *)

\* lines given to one JSONPacketBuffer
MaxJsonLines == 6

\* the lines of the stream: the opening and the closing bracket, the comma
\* between two packets, an object on one line and an object on two lines
JsonLineIds == {"open", "comma", "close", "obj", "head", "tail"}

JsonLineText(id) ==
    CASE id = "open"  -> <<"[", "\n">>
      [] id = "comma" -> <<" ", " ", ",", "\n">>
      [] id = "close" -> <<"]", "\n">>
      [] id = "obj"   -> <<" ", " ", "{", "}", "\n">>
      [] id = "head"  -> <<" ", " ", "{", "\n">>
      [] id = "tail"  -> <<" ", " ", "}", "\n">>

\* json.loads(''.join(lines)) returns: the text is one JSON value
json_loads_ok(lines) == lines \in {<<"obj">>, <<"head", "tail">>}

\* a variant of parse_and_callback that keeps the buffer of a packet that
\* does not parse
parse_and_callback_keep(buf, raises) ==
    IF json_loads_ok(buf)
    THEN [buffer |-> <<>>, called |-> TRUE,
          outcome |-> IF raises THEN "callback raised" ELSE "ok"]
    ELSE [buffer |-> buf, called |-> FALSE, outcome |-> "JSONDecodeError"]

\* _parse_and_callback (lines 401-415) with the buffer buf and a callback
\* that raises or not: what is left in the buffer, whether the callback was
\* called, how the attempt ended
parse_and_callback(buf, raises) ==
    [buffer  |-> <<>>,
     called  |-> json_loads_ok(buf),
     outcome |-> IF ~json_loads_ok(buf) THEN "JSONDecodeError"
                 ELSE IF raises THEN "callback raised" ELSE "ok"]

InitJson ==
    /\ prog = "json"
    /\ ReadersUnused
    /\ FnUnused
    /\ PipeUnused
    /\ SbceUnused
    /\ buffer = <<>>
    /\ started = FALSE
    /\ lines_seen = <<>>
    /\ parse_attempts = <<>>
    /\ callbacks = <<>>

\* process_line(line) (lines 378-399)
process_line(line) ==
    /\ prog = "json"
    /\ Len(lines_seen) < MaxJsonLines
    /\ lines_seen' = Append(lines_seen, line)
    /\ IF Strip(JsonLineText(line)) = <<"[">>
       THEN /\ started' = TRUE
            /\ UNCHANGED <<buffer, parse_attempts, callbacks>>
       ELSE IF Strip(JsonLineText(line)) \in {<<",">>, <<"]">>}
       THEN /\ UNCHANGED started
            /\ IF buffer # <<>>
               THEN \E raises \in BOOLEAN :
                       LET r == parse_and_callback(buffer, raises) IN
                       /\ buffer' = r.buffer
                       /\ parse_attempts' = Append(parse_attempts,
                             [lines |-> buffer, outcome |-> r.outcome])
                       /\ callbacks' = IF r.called THEN Append(callbacks, buffer)
                                       ELSE callbacks
               ELSE UNCHANGED <<buffer, parse_attempts, callbacks>>
       ELSE /\ buffer' = IF started THEN Append(buffer, line) ELSE buffer
            /\ UNCHANGED <<started, parse_attempts, callbacks>>
    /\ UNCHANGED <<prog, frVars, dirVars, tailVars, sipVars, fnVars, open_streams,
                   pipeVars, sbceVars>>

NextJson == \E line \in JsonLineIds : process_line(line)

SpecJson == InitJson /\ [][NextJson]_vars

\* the line of the step, and whether it ends a packet
LineOfStep == lines_seen'[Len(lines_seen')]

EndsPacket(line) == line \in {"comma", "close"}

\* C36: lines seen before the opening '[' line are never buffered; a line
\* of only ',' or ']' that finds the buffer not empty causes exactly one
\* parse attempt, of the buffered lines in the order they came, and no
\* other line causes one; the callback is called once for every packet that
\* parses; after every parse attempt, also one that fails or whose
\* callback raises, the buffer is empty
C36_PacketBufferIsolatesPackets ==
    [][prog = "json" =>
          /\ ~started => buffer = <<>>
          /\ (\A i \in 1..Len(lines_seen') : lines_seen'[i] # "open") => buffer' = <<>>
          /\ IF EndsPacket(LineOfStep) /\ buffer # <<>>
             THEN /\ Len(parse_attempts') = Len(parse_attempts) + 1
                  /\ SubSeq(parse_attempts', 1, Len(parse_attempts)) = parse_attempts
                  /\ parse_attempts'[Len(parse_attempts')].lines = buffer
                  /\ buffer' = <<>>
                  /\ callbacks' = IF buffer \in {<<"obj">>, <<"head", "tail">>}
                                  THEN Append(callbacks, buffer) ELSE callbacks
             ELSE /\ parse_attempts' = parse_attempts
                  /\ callbacks' = callbacks
                  /\ buffer' \in {buffer, Append(buffer, LineOfStep)}]_vars

\* a line before '[' was dropped, a packet that does not parse was
\* followed by a packet that was given to the callback
C36_Witness ==
    /\ prog = "json"
    /\ lines_seen # <<>> /\ lines_seen[1] = "tail"
    /\ Len(parse_attempts) = 2
    /\ parse_attempts[1].outcome = "JSONDecodeError"
    /\ parse_attempts[2].outcome = "ok"
    /\ callbacks = <<<<"obj">>>>
    /\ buffer = <<>>

----------------------------------------------------------------------------
(* sbce.py: the property sipcc_loglevel reads and writes the row           *)
(* LOG_SUB_SIPCC of EXECUTION_LOGLEVEL; capture_start and capture_stop set *)
(* its third character.                                                    *)

\* UPDATE statements in one behaviour
MaxUpdates == 2

\* the length the getter asks of the level: [01]{6}
LevelLen == 6

Bits == {"0", "1"}

Levels == {l \in [1..LevelLen -> Bits] : TRUE}

\* re.match("[01]{6}$", value)
IsLevel(value) == Len(value) = LevelLen /\ \A i \in 1..Len(value) : value[i] \in Bits

\* re.match(pattern, value) for the pattern the setter builds of the
\* current level cur: its first two characters, [01], its last three.
\* re.match asks nothing of what follows the match
setter_match(cur, value) ==
    /\ Len(value) >= LevelLen
    /\ SubSeq(value, 1, 2) = SubSeq(cur, 1, 2)
    /\ value[3] \in Bits
    /\ SubSeq(value, 4, LevelLen) = SubSeq(cur, 4, LevelLen)

\* "".join((self.sipcc_loglevel[:2], bit, self.sipcc_loglevel[3:]))
WithBit(cur, bit) == SubSeq(cur, 1, 2) \o <<bit>> \o SubSeq(cur, 4, Len(cur))

\* the values a caller gives the setter: the stored level with one
\* character changed, with a character more, or with one less
Flip(l, i) == [l EXCEPT ![i] = IF @ = "0" THEN "1" ELSE "0"]

SetterValues ==
    {loglevel} \cup {Flip(loglevel, i) : i \in 1..Len(loglevel)}
    \cup {Append(loglevel, b) : b \in Bits}
    \cup {Append(Flip(loglevel, 3), "0")}
    \cup {SubSeq(loglevel, 1, Len(loglevel) - 1)}

InitSbce ==
    /\ prog = "sbce"
    /\ ReadersUnused
    /\ FnUnused
    /\ PipeUnused
    /\ JsonUnused
    /\ loglevel \in Levels
    /\ mock \in {"unset", "False", "True"}
    /\ capture_active = FALSE
    /\ sbce_result = [call |-> "init", value |-> <<>>, outcome |-> ""]
    /\ updates = 0

\* the setter of sipcc_loglevel (lines 143-162) called with value: how it
\* ends and whether the UPDATE is issued.  SBCE has no attribute
\* LOGLEVEL_ERR, so building the ValueError raises AttributeError
setter(value) ==
    IF ~IsLevel(loglevel)
    THEN [outcome |-> "RuntimeError", update |-> FALSE]
    ELSE IF ~setter_match(loglevel, value)
    THEN [outcome |-> "AttributeError", update |-> FALSE]
    ELSE [outcome |-> "None", update |-> TRUE]

\* sbce.sipcc_loglevel = value
SetLoglevel ==
    /\ prog = "sbce"
    /\ updates < MaxUpdates
    /\ \E value \in SetterValues :
          LET r == setter(value) IN
          /\ sbce_result' = [call |-> "setter", value |-> value, outcome |-> r.outcome]
          /\ loglevel' = IF r.update THEN value ELSE loglevel
          /\ updates' = IF r.update THEN updates + 1 ELSE updates
    /\ UNCHANGED <<prog, frVars, dirVars, tailVars, sipVars, fnVars, open_streams,
                   pipeVars, jsonVars, capture_active, mock>>

\* capture_start (lines 164-178) with bit "1" and capture_stop (180-194)
\* with bit "0".  __init__ does not set the attribute mock: unless the
\* caller has set it, reading it raises AttributeError
Capture(call, bit) ==
    /\ prog = "sbce"
    /\ updates < MaxUpdates
    /\ IF mock = "unset"
       THEN /\ sbce_result' = [call |-> call, value |-> <<>>, outcome |-> "AttributeError"]
            /\ UNCHANGED <<loglevel, updates, capture_active>>
       ELSE IF mock = "True"
       THEN /\ sbce_result' = [call |-> call, value |-> <<>>, outcome |-> "True"]
            /\ capture_active' = (bit = "1")
            /\ UNCHANGED <<loglevel, updates>>
       ELSE IF ~IsLevel(loglevel)
       THEN /\ sbce_result' = [call |-> call, value |-> <<>>, outcome |-> "RuntimeError"]
            /\ UNCHANGED <<loglevel, updates, capture_active>>
       ELSE LET value == WithBit(loglevel, bit)
                r     == setter(value)
            IN  /\ loglevel' = IF r.update THEN value ELSE loglevel
                /\ updates' = IF r.update THEN updates + 1 ELSE updates
                /\ sbce_result' = [call |-> call, value |-> value,
                                   outcome |-> IF r.update THEN "True" ELSE r.outcome]
                /\ capture_active' = IF r.update THEN (bit = "1") ELSE capture_active
    /\ UNCHANGED <<prog, frVars, dirVars, tailVars, sipVars, fnVars, open_streams,
                   pipeVars, jsonVars, mock>>

capture_start == Capture("capture_start", "1")

capture_stop == Capture("capture_stop", "0")

NextSbce == SetLoglevel \/ capture_start \/ capture_stop

SpecSbce == InitSbce /\ [][NextSbce]_vars

\* value differs from the level cur somewhere else than at index 2
DiffersElsewhere(cur, value) ==
    \/ Len(value) # Len(cur)
    \/ \E i \in (1..Len(cur)) \ {3} : value[i] # cur[i]

\* C37: the setter rejects with ValueError, before any UPDATE is issued,
\* every value that differs from the stored level elsewhere than at index
\* 2, also a longer one; so over every sequence of calls the stored level
\* keeps every character but the one at index 2 and matches [01]{6}
C37_SetterGuardsLevel ==
    [][prog = "sbce" =>
          /\ (sbce_result'.call = "setter" /\ sbce_result' # sbce_result
                /\ DiffersElsewhere(loglevel, sbce_result'.value)) =>
                /\ sbce_result'.outcome = "ValueError"
                /\ updates' = updates
                /\ loglevel' = loglevel
          /\ IsLevel(loglevel')
          /\ \A i \in (1..LevelLen) \ {3} : loglevel'[i] = loglevel[i]]_vars
====
